---- MODULE Spec2Model ----
(***************************************************************************)
(* Duplicate-resolution and move-planning engine of photo-manager-delta.   *)
(*                                                                         *)
(*   Spec      : AdvancedDuplicateDetector.remove_duplicates, one step per *)
(*               pass, over file lists drawn from a small photo library.   *)
(*   SpecSim   : calculate_perceptual_similarity on pairs of hash mappings.*)
(*   SpecGroup : group_by_time on lists of timestamped records.            *)
(*   SpecPlan  : PhotoOrganizer.plan_moves on a small destination tree.    *)
(*   SpecBest  : select_best_file on clusters given in two orders.         *)
(*   SpecCollision : resolve_name_collision, one step per loop iteration.  *)
(*   SpecRun   : ConsolidadorFotos.ejecutar_consolidacion, one step per    *)
(*               stage of the pipeline.                                    *)
(*   SpecExec  : GestorArchivos.ejecutar_movimientos, one step per         *)
(*               statement of the loop body.                               *)
(*                                                                         *)
(* Strings are sequences of one-character strings, paths are sequences of  *)
(* parts (pathlib's Path.parts), floats are exact rationals [n, d].        *)
(***************************************************************************)
EXTENDS Integers, Sequences, FiniteSets, TLC

VARIABLES
    pc,               \* position inside the operation a specification runs
    files,            \* remove_duplicates: the input list of paths
    skip_visual,      \* remove_duplicates: the skip_visual argument
    files_data,       \* remove_duplicates: the records built by the first loop
    exact_duplicates, content_duplicates, visual_duplicates, burst_duplicates,
    all_duplicates,   \* remove_duplicates: the merged graph
    unique_files,     \* remove_duplicates: the returned list
    stats,            \* AdvancedDuplicateDetector.stats
    arg_hashes1, arg_hashes2, \* calculate_perceptual_similarity: the two arguments
    sim12, sim21,     \* its result on (arg_hashes1, arg_hashes2) and swapped
    time_input,       \* group_by_time: the argument
    time_groups,      \* group_by_time: the returned groups
    dest_dirs,        \* the destination's top-level directories, in iterdir order
    albums,           \* detect_existing_albums: the returned index
    plan_files,       \* plan_moves: the list of files to plan
    disk,             \* the files that exist under the destination
    moves,            \* plan_moves: the returned list
    plan_stats,       \* PhotoOrganizer.stats
    config,           \* PhotoOrganizer.config: its storage.hierarchy entry
    cluster,          \* select_best_file: the candidates it is called with
    permuted,         \* the same candidates in another order
    best,             \* select_best_file(cluster)
    best_permuted,    \* select_best_file(permuted)
    collision_base,   \* resolve_name_collision: the local `base`
    collision_counter, \* resolve_name_collision: the local `counter`
    collision_destination, \* resolve_name_collision: the local `destination`
    origen, destino,  \* ConsolidadorFotos: the resolved source and destination
    directories,      \* the directories that exist
    source_files,     \* the image files that exist under the source
    dry_run,          \* ejecutar_consolidacion: the dry_run argument
    respuesta,        \* what the user answers to confirmar_ejecucion
    run_stats,        \* ConsolidadorFotos.stats
    log,              \* the stages ejecutar_consolidacion has logged
    informe,          \* informe_consolidacion.txt has been written
    move_index,       \* ejecutar_movimientos: the position of its loop in the list
    archivos_movidos, \* ejecutar_movimientos: the local counter it returns
    attempts,         \* how often the loop has started to handle each move
    move_outcome,          \* how the handling of each move ended
    copies            \* the files written under the destination: content and mtime

vars == <<pc, files, skip_visual, files_data, exact_duplicates, content_duplicates,
          visual_duplicates, burst_duplicates, all_duplicates, unique_files, stats,
          arg_hashes1, arg_hashes2, sim12, sim21, time_input, time_groups,
          dest_dirs, albums, plan_files, disk, moves, plan_stats, config,
          cluster, permuted, best, best_permuted,
          collision_base, collision_counter, collision_destination,
          origen, destino, directories, source_files, dry_run, respuesta,
          run_stats, log, informe,
          move_index, archivos_movidos, attempts, move_outcome, copies>>

classifyVars == <<files, skip_visual, files_data, exact_duplicates, content_duplicates,
                  visual_duplicates, burst_duplicates, all_duplicates, unique_files, stats>>
simVars == <<arg_hashes1, arg_hashes2, sim12, sim21>>
groupVars == <<time_input, time_groups>>
planVars == <<dest_dirs, albums, plan_files, disk, moves, plan_stats, config>>
bestVars == <<cluster, permuted, best, best_permuted>>
collisionVars == <<collision_base, collision_counter, collision_destination>>
runVars == <<origen, destino, directories, source_files, dry_run, respuesta,
             run_stats, log, informe>>
execVars == <<move_index, archivos_movidos, attempts, move_outcome, copies>>

(***************************************************************************)
(* Bounds.                                                                 *)
(***************************************************************************)
\* longest file list handed to remove_duplicates
MaxFiles == 3
\* longest record list handed to group_by_time
MaxTimed == 4
\* longest file list handed to plan_moves
MaxPlan == 2
\* most top-level directories under the destination
MaxDirs == 2

(***************************************************************************)
(* Sequences, strings, numbers.                                            *)
(***************************************************************************)
Range(s) == {s[i] : i \in 1..Len(s)}

RECURSIVE SumSeq(_)
SumSeq(s) == IF s = <<>> THEN 0 ELSE Head(s) + SumSeq(Tail(s))

\* all sequences of pairwise distinct elements of S of length at most n
RECURSIVE DistinctSeqs(_, _)
DistinctSeqs(S, n) ==
    IF n = 0 THEN {<<>>}
    ELSE LET shorter == DistinctSeqs(S, n - 1)
             longest == {r \in shorter : Len(r) = n - 1}
         IN  shorter \cup UNION {{Append(q, x) : x \in S \ Range(q)} : q \in longest}

Abs(x) == IF x < 0 THEN -x ELSE x

RECURSIVE GCD(_, _)
GCD(a, b) == IF b = 0 THEN a ELSE GCD(b, a % b)

\* exact rationals standing for Python floats
Rat(n, d) == LET g == GCD(Abs(n), d) IN [n |-> n \div g, d |-> d \div g]
RZero == Rat(0, 1)
ROne == Rat(1, 1)
RAdd(a, b) == Rat(a.n * b.d + b.n * a.d, a.d * b.d)
RSub(a, b) == Rat(a.n * b.d - b.n * a.d, a.d * b.d)
RMul(a, b) == Rat(a.n * b.n, a.d * b.d)
RDivInt(a, k) == Rat(a.n, a.d * k)
RAbs(a) == [n |-> Abs(a.n), d |-> a.d]
RLess(a, b) == a.n * b.d < b.n * a.d
RLeq(a, b) == a.n * b.d <= b.n * a.d
RMax(a, b) == IF RLess(a, b) THEN b ELSE a

RECURSIVE RSum(_)
RSum(s) == IF s = <<>> THEN RZero ELSE RAdd(Head(s), RSum(Tail(s)))

UpperLetters == <<"A","B","C","D","E","F","G","H","I","J","K","L","M",
                  "N","O","P","Q","R","S","T","U","V","W","X","Y","Z">>
LowerLetters == <<"a","b","c","d","e","f","g","h","i","j","k","l","m",
                  "n","o","p","q","r","s","t","u","v","w","x","y","z">>

\* str.lower() on one character and on a string
LowerChar(c) ==
    IF \E i \in 1..26 : UpperLetters[i] = c
    THEN LowerLetters[CHOOSE i \in 1..26 : UpperLetters[i] = c]
    ELSE c
Lower(s) == [i \in 1..Len(s) |-> LowerChar(s[i])]

(***************************************************************************)
(* pathlib.                                                                *)
(***************************************************************************)
\* Path.name: the last part
Name(p) == p[Len(p)]

\* index of the last "." of a name, 0 when there is none (str.rfind + 1)
LastDot(name) ==
    IF \E i \in 1..Len(name) : name[i] = "."
    THEN CHOOSE i \in 1..Len(name) :
            name[i] = "." /\ \A j \in (i + 1)..Len(name) : name[j] # "."
    ELSE 0

\* Path.suffix: from the last dot, unless the dot leads or ends the name
Suffix(p) ==
    LET name == Name(p)
        i == LastDot(name)
    IN  IF 1 < i /\ i < Len(name) THEN SubSeq(name, i, Len(name)) ELSE <<>>

\* Path.stem: the name without its suffix
Stem(p) ==
    LET name == Name(p)
        i == LastDot(name)
    IN  IF 1 < i /\ i < Len(name) THEN SubSeq(name, 1, i - 1) ELSE name

\* Path.parent and the / operator
Parent(p) == SubSeq(p, 1, Len(p) - 1)
Join(dir, name) == Append(dir, name)

\* str(path): the parts joined by "/"
RECURSIVE PathStr(_)
PathStr(p) ==
    IF p = <<>> THEN <<>>
    ELSE IF Len(p) = 1 THEN p[1]
    ELSE p[1] \o <<"/">> \o PathStr(Tail(p))

\* Path(string): the string split at "/"
RECURSIVE SplitPath(_, _)
SplitPath(s, cur) ==
    IF s = <<>> THEN (IF cur = <<>> THEN <<>> ELSE <<cur>>)
    ELSE IF Head(s) = "/"
         THEN (IF cur = <<>> THEN <<>> ELSE <<cur>>) \o SplitPath(Tail(s), <<>>)
         ELSE SplitPath(Tail(s), Append(cur, Head(s)))
PathOf(s) == SplitPath(s, <<>>)

(***************************************************************************)
(* Perceptual hashes.  A hash mapping is a record over the five kinds; a   *)
(* kind the dict does not hold has the value Missing.  A value is a hex    *)
(* string, or NoneHash when the encoder returned None for the image.       *)
(***************************************************************************)
HashKinds == {"phash", "dhash", "ahash", "whash", "colorhash"}
Missing == <<"<missing>">>
NoneHash == <<"None">>
Has(hashes, tipo) == hashes[tipo] # Missing

HexDigits == <<"0","1","2","3","4","5","6","7","8","9","a","b","c","d","e","f">>
IsHexChar(c) == \E i \in 1..16 : HexDigits[i] = c
HexVal(c) == (CHOOSE i \in 1..16 : HexDigits[i] = c) - 1

\* int(s, 16) succeeds: a non-empty string of hex digits
ParsesHex(s) == s # <<>> /\ \A i \in 1..Len(s) : IsHexChar(s[i])

\* the k-th hex digit from the right of int(s, 16), 0 beyond its length
DigitFromRight(s, k) == IF k <= Len(s) THEN HexVal(s[Len(s) + 1 - k]) ELSE 0

Bit(x, i) == (x \div (2 ^ i)) % 2
\* x ^ y on one hex digit
XorDigit(x, y) ==
    SumSeq([i \in 1..4 |-> (IF Bit(x, i - 1) # Bit(y, i - 1) THEN 1 ELSE 0) * (2 ^ (i - 1))])
\* bin(x).count('1') on one hex digit
PopCount(x) == SumSeq([i \in 1..4 |-> Bit(x, i - 1)])

\* bin(int(a, 16) ^ int(b, 16)).count('1'), digit by digit
Hamming(a, b) ==
    LET width == IF Len(a) < Len(b) THEN Len(b) ELSE Len(a)
    IN  SumSeq([k \in 1..width |->
                  PopCount(XorDigit(DigitFromRight(a, k), DigitFromRight(b, k)))])

\* the phash branch: the list of samples it appends (none when int() raises)
PhashSamples(hashes1, hashes2) ==
    IF Has(hashes1, "phash") /\ Has(hashes2, "phash")
       /\ ParsesHex(hashes1["phash"]) /\ ParsesHex(hashes2["phash"])
    THEN LET dist == Hamming(hashes1["phash"], hashes2["phash"])
             sim == RSub(ROne, Rat(dist, 64))
         IN  <<RMul(sim, Rat(2, 1))>>
    ELSE <<>>

\* imagehash.hex_to_hash(a) - imagehash.hex_to_hash(b) raises: a value that is
\* no hex string, or two bit arrays of different size
ImageHashRaises(a, b) == ~ParsesHex(a) \/ ~ParsesHex(b) \/ Len(a) # Len(b)

\* mutant of KindSamples: only the first mapping is asked for the kind
KindSamplesOneSided(hashes1, hashes2, tipo) ==
    IF Has(hashes1, tipo)
    THEN IF tipo \in {"whash", "colorhash"}
         THEN IF ImageHashRaises(hashes1[tipo], hashes2[tipo])
              THEN <<>>
              ELSE <<RSub(ROne, Rat(Hamming(hashes1[tipo], hashes2[tipo]), 64))>>
         ELSE <<IF hashes1[tipo] = hashes2[tipo] THEN ROne ELSE RZero>>
    ELSE <<>>

\* the loop body for one of dhash, ahash, whash, colorhash
KindSamples(hashes1, hashes2, tipo) ==
    IF Has(hashes1, tipo) /\ Has(hashes2, tipo)
    THEN IF tipo \in {"whash", "colorhash"}
         THEN IF ImageHashRaises(hashes1[tipo], hashes2[tipo])
              THEN <<>>
              ELSE <<RSub(ROne, Rat(Hamming(hashes1[tipo], hashes2[tipo]), 64))>>
         ELSE <<IF hashes1[tipo] = hashes2[tipo] THEN ROne ELSE RZero>>
    ELSE <<>>

\* the list `similarities` at the return statement
Similarities(hashes1, hashes2) ==
    PhashSamples(hashes1, hashes2)
    \o KindSamples(hashes1, hashes2, "dhash")
    \o KindSamples(hashes1, hashes2, "ahash")
    \o KindSamples(hashes1, hashes2, "whash")
    \o KindSamples(hashes1, hashes2, "colorhash")

calculate_perceptual_similarity(hashes1, hashes2) ==
    LET similarities == Similarities(hashes1, hashes2)
    IN  IF similarities # <<>>
        THEN RDivInt(RSum(similarities), Len(similarities))
        ELSE RZero

(***************************************************************************)
(* Image features.  keys is the set of keys the dict holds.                *)
(***************************************************************************)
NoFeatures == [keys |-> {}, width |-> 0, height |-> 0, aspect |-> RZero,
               pixels |-> 0, brightness |-> RZero]

calculate_feature_similarity(features1, features2) ==
    IF features1.keys = {} \/ features2.keys = {} THEN RZero
    ELSE
    LET aspect ==
            IF "aspect" \in features1.keys /\ "aspect" \in features2.keys
            THEN <<RMax(RZero, RSub(ROne, RAbs(RSub(features1.aspect, features2.aspect))))>>
            ELSE <<>>
        brightness ==
            IF "brightness" \in features1.keys /\ "brightness" \in features2.keys
            THEN <<RMax(RZero, RSub(ROne,
                     RDivInt(RAbs(RSub(features1.brightness, features2.brightness)), 255)))>>
            ELSE <<>>
        similarities == aspect \o brightness
    IN  IF similarities # <<>>
        THEN RDivInt(RSum(similarities), Len(similarities))
        ELSE RZero

(***************************************************************************)
(* Best-candidate selection and the four passes.  A duplicate graph is a   *)
(* function from str(path) to a list of (match_path, similarity, tipo).    *)
(***************************************************************************)
RawBonusExtensions == {<<".","d","n","g">>, <<".","a","r","w">>,
                       <<".","n","e","f">>, <<".","c","r","2">>}
JpegExtensions == {<<".","j","p","g">>, <<".","j","p","e","g">>}
PngExtension == <<".","p","n","g">>

\* score_file, in thousandths (pixels * 0.001 is the smallest unit)
score_file(data) ==
    LET ext == Lower(Suffix(data.path))
    IN  data.size * 1000
        + (IF "pixels" \in data.features.keys THEN data.features.pixels ELSE 0)
        + (IF ext \in RawBonusExtensions THEN 10000 * 1000
           ELSE IF ext \in JpegExtensions THEN 1000 * 1000
           ELSE IF ext = PngExtension THEN 500 * 1000
           ELSE 0)

\* mutant of select_best_file: of several maximal candidates the last one
select_best_file_last(candidates) ==
    candidates[CHOOSE i \in 1..Len(candidates) :
                 /\ \A j \in 1..Len(candidates) :
                        score_file(candidates[j]) <= score_file(candidates[i])
                 /\ \A j \in (i + 1)..Len(candidates) :
                        score_file(candidates[j]) < score_file(candidates[i])]

\* max(candidates, key=score_file): the first candidate of maximal score
select_best_file(candidates) ==
    candidates[CHOOSE i \in 1..Len(candidates) :
                 /\ \A j \in 1..Len(candidates) :
                        score_file(candidates[j]) <= score_file(candidates[i])
                 /\ \A j \in 1..(i - 1) :
                        score_file(candidates[j]) < score_file(candidates[i])]

Edge(path, similarity, tipo) ==
    [match_path |-> PathStr(path), similarity |-> similarity, tipo |-> tipo]

\* the records the first loop of a hash pass files under key h
HashGroup(fd, field, h) == SelectSeq(fd, LAMBDA data : data[field] = h)

\* mutant of GroupedHashes: the `if h:` test is missing
GroupedHashesNoTest(fd, field) == {fd[i][field] : i \in 1..Len(fd)}

\* `if h:` -- the hashes that get a group at all
GroupedHashes(fd, field) == {fd[i][field] : i \in 1..Len(fd)} \ {""}

\* the second loop of detect_exact_duplicates / detect_content_duplicates
HashDuplicates(fd, field, tipo) ==
    LET dups == {data \in Range(fd) :
                    /\ data[field] \in GroupedHashes(fd, field)
                    /\ Len(HashGroup(fd, field, data[field])) > 1
                    /\ data # select_best_file(HashGroup(fd, field, data[field]))}
    IN  [file_str \in {PathStr(data.path) : data \in dups} |->
            LET data == CHOOSE d \in dups : PathStr(d.path) = file_str
            IN  <<Edge(select_best_file(HashGroup(fd, field, data[field])).path,
                       ROne, tipo)>>]

detect_exact_duplicates(fd) == HashDuplicates(fd, "binary_hash", "exact")
detect_content_duplicates(fd) == HashDuplicates(fd, "content_hash", "content")

\* the edges of a graph; each pass adds their number to its counter
Edges(graph) == UNION {{<<k, i>> : i \in 1..Len(graph[k])} : k \in DOMAIN graph}
EdgeCount(graph) == Cardinality(Edges(graph))

visual_threshold == Rat(85, 100)
temporal_threshold == 5

\* mutant of VisualMatches: a similarity equal to the threshold is a match
VisualMatchesNonStrict(fd, i) ==
    LET later == [j \in 1..(Len(fd) - i) |-> fd[i + j]]
        hit == SelectSeq(later, LAMBDA data2 :
                  RLeq(visual_threshold,
                       calculate_perceptual_similarity(fd[i].perceptual_hashes,
                                                       data2.perceptual_hashes)))
    IN  [j \in 1..Len(hit) |->
            Edge(hit[j].path,
                 calculate_perceptual_similarity(fd[i].perceptual_hashes,
                                                 hit[j].perceptual_hashes),
                 "visual")]

\* the inner loop of detect_visual_duplicates for data1 = fd[i]
VisualMatches(fd, i) ==
    LET later == [j \in 1..(Len(fd) - i) |-> fd[i + j]]
        hit == SelectSeq(later, LAMBDA data2 :
                  RLess(visual_threshold,
                        calculate_perceptual_similarity(fd[i].perceptual_hashes,
                                                        data2.perceptual_hashes)))
    IN  [j \in 1..Len(hit) |->
            Edge(hit[j].path,
                 calculate_perceptual_similarity(fd[i].perceptual_hashes,
                                                 hit[j].perceptual_hashes),
                 "visual")]

detect_visual_duplicates(fd) ==
    LET keyed == {i \in 1..Len(fd) : VisualMatches(fd, i) # <<>>}
    IN  [file_str \in {PathStr(fd[i].path) : i \in keyed} |->
            VisualMatches(fd, CHOOSE i \in keyed : PathStr(fd[i].path) = file_str)]

\* sorted(files_data, key=timestamp): a stable insertion sort
RECURSIVE InsertByTime(_, _)
InsertByTime(x, sorted) ==
    IF sorted = <<>> THEN <<x>>
    ELSE IF x.timestamp < Head(sorted).timestamp THEN <<x>> \o sorted
    ELSE <<Head(sorted)>> \o InsertByTime(x, Tail(sorted))

RECURSIVE SortByTime(_)
SortByTime(fd) ==
    IF fd = <<>> THEN <<>>
    ELSE InsertByTime(fd[Len(fd)], SortByTime(SubSeq(fd, 1, Len(fd) - 1)))

\* mutant of GroupLoop: a gap equal to the threshold starts a new group
RECURSIVE GroupLoopStrict(_, _, _, _)
GroupLoopStrict(sorted_files, i, groups, current_group) ==
    IF i > Len(sorted_files)
    THEN IF Len(current_group) > 1 THEN Append(groups, current_group) ELSE groups
    ELSE LET difference == Abs(sorted_files[i].timestamp - sorted_files[i - 1].timestamp)
         IN  IF difference < temporal_threshold
             THEN GroupLoopStrict(sorted_files, i + 1, groups,
                                  Append(current_group, sorted_files[i]))
             ELSE GroupLoopStrict(sorted_files, i + 1,
                                  IF Len(current_group) > 1
                                  THEN Append(groups, current_group) ELSE groups,
                                  <<sorted_files[i]>>)

\* the loop of group_by_time from index i on, and the final flush
RECURSIVE GroupLoop(_, _, _, _)
GroupLoop(sorted_files, i, groups, current_group) ==
    IF i > Len(sorted_files)
    THEN IF Len(current_group) > 1 THEN Append(groups, current_group) ELSE groups
    ELSE LET difference == Abs(sorted_files[i].timestamp - sorted_files[i - 1].timestamp)
         IN  IF difference <= temporal_threshold
             THEN GroupLoop(sorted_files, i + 1, groups,
                            Append(current_group, sorted_files[i]))
             ELSE GroupLoop(sorted_files, i + 1,
                            IF Len(current_group) > 1
                            THEN Append(groups, current_group) ELSE groups,
                            <<sorted_files[i]>>)

\* sorted_files[0] raises IndexError on an empty list
GroupByTimeRaises(fd) == fd = <<>>

group_by_time(fd) ==
    LET sorted_files == SortByTime(fd)
    IN  GroupLoop(sorted_files, 2, <<>>, <<sorted_files[1]>>)

\* total_similarity of detect_burst_duplicates
TotalSimilarity(data1, data2) ==
    RAdd(RMul(calculate_perceptual_similarity(data1.perceptual_hashes,
                                              data2.perceptual_hashes), Rat(7, 10)),
         RMul(calculate_feature_similarity(data1.features, data2.features), Rat(3, 10)))

\* mutant of BurstMatches: data1 is compared with the records before it
BurstMatchesBackwards(group, i) ==
    LET earlier == [j \in 1..(i - 1) |-> group[j]]
        hit == SelectSeq(earlier, LAMBDA data2 :
                  RLess(Rat(8, 10), TotalSimilarity(group[i], data2)))
    IN  [j \in 1..Len(hit) |->
            Edge(hit[j].path, TotalSimilarity(group[i], hit[j]), "burst")]

\* the inner loop of detect_burst_duplicates for data1 = group[i]
BurstMatches(group, i) ==
    LET later == [j \in 1..(Len(group) - i) |-> group[i + j]]
        hit == SelectSeq(later, LAMBDA data2 :
                  RLess(Rat(8, 10), TotalSimilarity(group[i], data2)))
    IN  [j \in 1..Len(hit) |->
            Edge(hit[j].path, TotalSimilarity(group[i], hit[j]), "burst")]

detect_burst_duplicates(fd) ==
    LET temporal_groups == group_by_time(fd)
        keyed == {gi \in (1..Len(temporal_groups)) \X (1..Len(fd)) :
                     /\ gi[2] <= Len(temporal_groups[gi[1]])
                     /\ BurstMatches(temporal_groups[gi[1]], gi[2]) # <<>>}
    IN  [file_str \in {PathStr(temporal_groups[gi[1]][gi[2]].path) : gi \in keyed} |->
            LET gi == CHOOSE x \in keyed :
                         PathStr(temporal_groups[x[1]][x[2]].path) = file_str
            IN  BurstMatches(temporal_groups[gi[1]], gi[2])]

\* mutant of Update: the list of a known key is extended by the new matches
UpdateExtending(graph, other) ==
    [k \in DOMAIN graph \cup DOMAIN other |->
        IF k \in DOMAIN graph /\ k \in DOMAIN other THEN graph[k] \o other[k]
        ELSE IF k \in DOMAIN other THEN other[k] ELSE graph[k]]

\* dict.update
Update(graph, other) ==
    [k \in DOMAIN graph \cup DOMAIN other |->
        IF k \in DOMAIN other THEN other[k] ELSE graph[k]]

EmptyGraph == [k \in {} |-> <<>>]

\* files_to_remove of remove_duplicates
FilesToRemove(graph) ==
    {PathOf(graph[k][i].match_path) : <<k, i>> \in Edges(graph)}

(***************************************************************************)
(* The photo library remove_duplicates is run on: what the external        *)
(* extraction (stat, get_timestamp_func, the hash and feature calculators) *)
(* yields for each file.                                                   *)
(***************************************************************************)
Rep(c, n) == [i \in 1..n |-> c]
InPath(name) == <<<<"i","n">>, name>>

Hashes(p, d, a, w, c) == [phash |-> p, dhash |-> d, ahash |-> a, whash |-> w, colorhash |-> c]
NoHashes == Hashes(Missing, Missing, Missing, Missing, Missing)
Features(aspect, pixels, brightness) ==
    [keys |-> {"width", "height", "aspect", "pixels", "brightness", "contrast"},
     width |-> 40, height |-> 30, aspect |-> aspect, pixels |-> pixels,
     brightness |-> brightness]

\* one picture, stored three times byte for byte and once re-encoded
PictureHashes == Hashes(Rep("f", 16), Rep("a", 16), Rep("b", 16), Rep("f", 16), Rep("f", 11))
PictureFeatures == Features(Rat(4, 3), 1200, Rat(100, 1))
\* three shots of one burst
Shot1Hashes == Hashes(Rep("0", 16), Rep("1", 16), Rep("2", 16), Rep("0", 16), Rep("0", 11))
Shot2Hashes == Hashes(Rep("0", 15) \o <<"f">>, Rep("1", 16), Rep("2", 16),
                      Rep("0", 16), Rep("0", 11))
Shot3Hashes == Hashes(Rep("0", 10) \o Rep("f", 6), Rep("3", 16), Rep("2", 16),
                      Rep("0", 14) \o Rep("f", 2), Rep("0", 11))

FileOnDisk(name, timestamp, size, binary_hash, content_hash, hashes, features) ==
    [path |-> InPath(name), readable |-> TRUE, timestamp |-> timestamp, size |-> size,
     binary_hash |-> binary_hash, content_hash |-> content_hash,
     perceptual_hashes |-> hashes, features |-> features]

Library == {
    FileOnDisk(<<"a",".","d","n","g">>, 0, 1000, "b1", "c1", PictureHashes, PictureFeatures),
    FileOnDisk(<<"b",".","j","p","g">>, 1, 1000, "b1", "c1", PictureHashes, PictureFeatures),
    FileOnDisk(<<"c",".","J","P","G">>, 2, 1000, "b1", "c1", PictureHashes, PictureFeatures),
    FileOnDisk(<<"d",".","p","n","g">>, 3, 20000, "b2", "c1", PictureHashes, PictureFeatures),
    FileOnDisk(<<"s","1",".","j","p","g">>, 11, 3000, "b3", "c3", Shot1Hashes,
               Features(Rat(4, 3), 1200, Rat(120, 1))),
    FileOnDisk(<<"s","2",".","j","p","g">>, 12, 5000, "b4", "c4", Shot2Hashes,
               Features(Rat(4, 3), 1200, Rat(120, 1))),
    FileOnDisk(<<"s","3",".","j","p","g">>, 12, 4000, "b5", "c5", Shot3Hashes,
               Features(Rat(4, 3), 1200, Rat(121, 1))),
    \* two files no hash or feature could be computed for
    FileOnDisk(<<"u",".","j","p","g">>, 20, 500, "", "", NoHashes, NoFeatures),
    FileOnDisk(<<"v",".","j","p","g">>, 21, 600, "", "", NoHashes, NoFeatures),
    \* a file that vanished after the scan: file.stat() raises
    [FileOnDisk(<<"g",".","j","p","g">>, 0, 0, "", "", NoHashes, NoFeatures)
        EXCEPT !.readable = FALSE]
}

LibraryPaths == {f.path : f \in Library}
OnDisk(path) == CHOOSE f \in Library : f.path = path

\* the dict the first loop of remove_duplicates builds for one file
FileData(file) ==
    LET f == OnDisk(file)
    IN  [path |-> file, timestamp |-> f.timestamp, size |-> f.size,
         binary_hash |-> f.binary_hash, content_hash |-> f.content_hash,
         perceptual_hashes |-> f.perceptual_hashes, features |-> f.features]

(***************************************************************************)
(* remove_duplicates, one action per stage.                                *)
(***************************************************************************)
NoStats == [exact_duplicates |-> 0, content_duplicates |-> 0, visual_duplicates |-> 0,
            burst_duplicates |-> 0, opencv_duplicates |-> 0]

SimIdle ==
    /\ arg_hashes1 = NoHashes /\ arg_hashes2 = NoHashes
    /\ sim12 = RZero /\ sim21 = RZero
GroupIdle == time_input = <<>> /\ time_groups = <<>>
NoPlanStats == [assigned_to_album |-> 0, organized_by_date |-> 0, raw_processed |-> 0]
PlanIdle ==
    /\ dest_dirs = <<>> /\ albums = <<>> /\ plan_files = <<>>
    /\ disk = {} /\ moves = <<>> /\ plan_stats = NoPlanStats
    /\ config = Missing
NoBest == <<>>
BestIdle ==
    /\ cluster = <<>> /\ permuted = <<>>
    /\ best = NoBest /\ best_permuted = NoBest
CollisionIdle ==
    collision_base = <<>> /\ collision_counter = 0 /\ collision_destination = <<>>
NoRunStats == [archivos_procesados |-> 0, duplicados_eliminados |-> 0,
               archivos_movidos |-> 0, errores |-> 0]
RunIdle ==
    /\ origen = <<>> /\ destino = <<>> /\ directories = {} /\ source_files = {}
    /\ dry_run = FALSE /\ respuesta = FALSE
    /\ run_stats = NoRunStats /\ log = <<>> /\ informe = FALSE
ExecIdle ==
    /\ move_index = 0 /\ archivos_movidos = 0
    /\ attempts = <<>> /\ move_outcome = <<>> /\ copies = {}

Init ==
    /\ pc = "prepare"
    /\ files \in DistinctSeqs(LibraryPaths, MaxFiles)
    /\ skip_visual \in BOOLEAN
    /\ files_data = <<>>
    /\ exact_duplicates = EmptyGraph /\ content_duplicates = EmptyGraph
    /\ visual_duplicates = EmptyGraph /\ burst_duplicates = EmptyGraph
    /\ all_duplicates = EmptyGraph
    /\ unique_files = <<>>
    /\ stats = NoStats
    /\ SimIdle /\ GroupIdle /\ PlanIdle /\ BestIdle /\ CollisionIdle /\ RunIdle /\ ExecIdle

\* the loop that builds files_data; a file whose record cannot be built is skipped
PrepareData ==
    /\ pc = "prepare"
    /\ files_data' = LET ok == SelectSeq(files, LAMBDA file : OnDisk(file).readable)
                     IN  [i \in 1..Len(ok) |-> FileData(ok[i])]
    /\ pc' = "exact"
    /\ UNCHANGED <<files, skip_visual, exact_duplicates, content_duplicates,
                   visual_duplicates, burst_duplicates, all_duplicates, unique_files, stats>>

ExactPass ==
    /\ pc = "exact"
    /\ exact_duplicates' = detect_exact_duplicates(files_data)
    /\ stats' = [stats EXCEPT !.exact_duplicates = @ + EdgeCount(exact_duplicates')]
    /\ all_duplicates' = Update(all_duplicates, exact_duplicates')
    /\ pc' = "content"
    /\ UNCHANGED <<files, skip_visual, files_data, content_duplicates,
                   visual_duplicates, burst_duplicates, unique_files>>

\* mutant of ContentPass: skip_visual is not looked at
ContentPassNoSkip ==
    /\ pc = "content"
    /\ content_duplicates' = detect_content_duplicates(files_data)
    /\ stats' = [stats EXCEPT !.content_duplicates = @ + EdgeCount(content_duplicates')]
    /\ all_duplicates' = Update(all_duplicates, content_duplicates')
    /\ pc' = "visual"
    /\ UNCHANGED <<files, skip_visual, files_data, exact_duplicates,
                   visual_duplicates, burst_duplicates, unique_files>>

ContentPass ==
    /\ pc = "content"
    /\ content_duplicates' = detect_content_duplicates(files_data)
    /\ stats' = [stats EXCEPT !.content_duplicates = @ + EdgeCount(content_duplicates')]
    /\ all_duplicates' = Update(all_duplicates, content_duplicates')
    /\ pc' = IF skip_visual THEN "process" ELSE "visual"
    /\ UNCHANGED <<files, skip_visual, files_data, exact_duplicates,
                   visual_duplicates, burst_duplicates, unique_files>>

VisualPass ==
    /\ pc = "visual"
    /\ visual_duplicates' = detect_visual_duplicates(files_data)
    /\ stats' = [stats EXCEPT !.visual_duplicates = @ + EdgeCount(visual_duplicates')]
    /\ all_duplicates' = Update(all_duplicates, visual_duplicates')
    /\ pc' = "burst"
    /\ UNCHANGED <<files, skip_visual, files_data, exact_duplicates,
                   content_duplicates, burst_duplicates, unique_files>>

\* on an empty files_data group_by_time raises and remove_duplicates ends there
BurstPass ==
    /\ pc = "burst"
    /\ IF GroupByTimeRaises(files_data)
       THEN /\ pc' = "raised"
            /\ UNCHANGED <<burst_duplicates, stats, all_duplicates>>
       ELSE /\ burst_duplicates' = detect_burst_duplicates(files_data)
            /\ stats' = [stats EXCEPT !.burst_duplicates = @ + EdgeCount(burst_duplicates')]
            /\ all_duplicates' = Update(all_duplicates, burst_duplicates')
            /\ pc' = "process"
    /\ UNCHANGED <<files, skip_visual, files_data, exact_duplicates,
                   content_duplicates, visual_duplicates, unique_files>>

\* files_to_remove and the returned list
ProcessDuplicates ==
    /\ pc = "process"
    /\ unique_files' = SelectSeq(files, LAMBDA file : file \notin FilesToRemove(all_duplicates))
    /\ pc' = "done"
    /\ UNCHANGED <<files, skip_visual, files_data, exact_duplicates, content_duplicates,
                   visual_duplicates, burst_duplicates, all_duplicates, stats>>

Next ==
    \/ (PrepareData /\ UNCHANGED <<simVars, groupVars, planVars, bestVars, collisionVars, runVars, execVars>>)
    \/ (ExactPass /\ UNCHANGED <<simVars, groupVars, planVars, bestVars, collisionVars, runVars, execVars>>)
    \/ (ContentPass /\ UNCHANGED <<simVars, groupVars, planVars, bestVars, collisionVars, runVars, execVars>>)
    \/ (VisualPass /\ UNCHANGED <<simVars, groupVars, planVars, bestVars, collisionVars, runVars, execVars>>)
    \/ (BurstPass /\ UNCHANGED <<simVars, groupVars, planVars, bestVars, collisionVars, runVars, execVars>>)
    \/ (ProcessDuplicates /\ UNCHANGED <<simVars, groupVars, planVars, bestVars, collisionVars, runVars, execVars>>)

Spec == Init /\ [][Next]_vars

(***************************************************************************)
(* PhotoOrganizer.  The album index is a dict, kept as the list of its     *)
(* (key, path) items in insertion order.                                   *)
(***************************************************************************)
destination == <<<<"d","e","s","t">>>>

\* a in b, on strings
IsSubstring(a, b) ==
    \E i \in 0..(Len(b) - Len(a)) : SubSeq(b, i + 1, i + Len(a)) = a

\* str.replace(old, new) for single characters
ReplaceChar(str, old, new) == [i \in 1..Len(str) |-> IF str[i] = old THEN new ELSE str[i]]

\* str.split(): the maximal runs of non-blank characters
RECURSIVE SplitWords(_, _)
SplitWords(str, cur) ==
    IF str = <<>> THEN (IF cur = <<>> THEN <<>> ELSE <<cur>>)
    ELSE IF Head(str) = " "
         THEN (IF cur = <<>> THEN <<>> ELSE <<cur>>) \o SplitWords(Tail(str), <<>>)
         ELSE SplitWords(Tail(str), Append(cur, Head(str)))

\* albums[key] = item: a new key goes last, a known key keeps its place
DictSet(dict, key, item) ==
    IF \E i \in 1..Len(dict) : dict[i].key = key
    THEN [i \in 1..Len(dict) |->
            IF dict[i].key = key THEN [key |-> key, path |-> item] ELSE dict[i]]
    ELSE Append(dict, [key |-> key, path |-> item])

RECURSIVE DictSetAll(_, _, _)
DictSetAll(dict, keys, item) ==
    IF keys = <<>> THEN dict
    ELSE DictSetAll(DictSet(dict, Head(keys), item), Tail(keys), item)

ReservedNames == {<<"r","a","w">>, <<"t","e","m","p">>, <<"d","u","p","l","i","c","a","t","e","s">>, <<".","g","i","t">>}

\* mutant of AlbumKeys: the `len(word) > 3` test is missing
AlbumKeysAllWords(name) ==
    LET lower_name == Lower(name)
        normalized_name == ReplaceChar(ReplaceChar(lower_name, "_", " "), "-", " ")
        words == SplitWords(normalized_name, <<>>)
    IN  <<lower_name, normalized_name>> \o words

\* the keys one directory registers, in the order it registers them
AlbumKeys(name) ==
    LET lower_name == Lower(name)
        normalized_name == ReplaceChar(ReplaceChar(lower_name, "_", " "), "-", " ")
        words == SplitWords(normalized_name, <<>>)
    IN  <<lower_name, normalized_name>> \o SelectSeq(words, LAMBDA word : Len(word) > 3)

\* the loop of detect_existing_albums over the directories from index i on
RECURSIVE DetectLoop(_, _, _)
DetectLoop(dirs, i, dict) ==
    IF i > Len(dirs) THEN dict
    ELSE DetectLoop(dirs, i + 1,
                    IF dirs[i] \notin ReservedNames
                    THEN DictSetAll(dict, AlbumKeys(dirs[i]), Join(destination, dirs[i]))
                    ELSE dict)

detect_existing_albums(dirs) == DetectLoop(dirs, 1, <<>>)

NoAlbum == <<>>

\* mutant of find_matching_album: one loop that tries both tests on each key
find_matching_album_one_pass(file_path, dict) ==
    LET path_str == Lower(PathStr(file_path))
        path_parts == [i \in 1..Len(file_path) |-> Lower(file_path[i])]
        hit == {i \in 1..Len(dict) :
                   \/ IsSubstring(dict[i].key, path_str)
                   \/ \E j \in 1..Len(path_parts) :
                          \/ IsSubstring(dict[i].key, path_parts[j])
                          \/ IsSubstring(path_parts[j], dict[i].key)}
    IN  IF hit # {} THEN dict[CHOOSE i \in hit : \A j \in hit : i <= j].path
        ELSE NoAlbum

\* find_matching_album; NoAlbum stands for None
find_matching_album(file_path, dict) ==
    LET path_str == Lower(PathStr(file_path))
        path_parts == [i \in 1..Len(file_path) |-> Lower(file_path[i])]
        exact == {i \in 1..Len(dict) : IsSubstring(dict[i].key, path_str)}
        partial == {i \in 1..Len(dict) :
                       \E j \in 1..Len(path_parts) :
                           \/ IsSubstring(dict[i].key, path_parts[j])
                           \/ IsSubstring(path_parts[j], dict[i].key)}
        First(S) == CHOOSE i \in S : \A j \in S : i <= j
    IN  IF exact # {} THEN dict[First(exact)].path
        ELSE IF partial # {} THEN dict[First(partial)].path
        ELSE NoAlbum

\* str(n) for n >= 0
RECURSIVE DecStr(_)
DecStr(n) == IF n < 10 THEN <<HexDigits[n + 1]>>
             ELSE DecStr(n \div 10) \o <<HexDigits[(n % 10) + 1]>>

\* zero-padded to two digits, as %m and %d print
TwoDigits(n) == IF n < 10 THEN <<"0">> \o DecStr(n) ELSE DecStr(n)

MonthNames == <<<<"J","a","n","u","a","r","y">>,
                <<"F","e","b","r","u","a","r","y">>,
                <<"M","a","r","c","h">>,
                <<"A","p","r","i","l">>,
                <<"M","a","y">>,
                <<"J","u","n","e">>,
                <<"J","u","l","y">>,
                <<"A","u","g","u","s","t">>,
                <<"S","e","p","t","e","m","b","e","r">>,
                <<"O","c","t","o","b","e","r">>,
                <<"N","o","v","e","m","b","e","r">>,
                <<"D","e","c","e","m","b","e","r">>>>
WeekdayNames == <<<<"S","u","n","d","a","y">>,
                  <<"M","o","n","d","a","y">>,
                  <<"T","u","e","s","d","a","y">>,
                  <<"W","e","d","n","e","s","d","a","y">>,
                  <<"T","h","u","r","s","d","a","y">>,
                  <<"F","r","i","d","a","y">>,
                  <<"S","a","t","u","r","d","a","y">>>>

\* datetime.fromtimestamp(timestamp), in UTC: year, month, day and weekday
CivilDate(timestamp) ==
    LET daynum == timestamp \div 86400
        z == daynum + 719468
        era == z \div 146097
        doe == z - era * 146097
        yoe == (doe - doe \div 1460 + doe \div 36524 - doe \div 146096) \div 365
        doy == doe - (365 * yoe + yoe \div 4 - yoe \div 100)
        mp == (5 * doy + 2) \div 153
        month == IF mp < 10 THEN mp + 3 ELSE mp - 9
    IN  [year |-> yoe + era * 400 + (IF month <= 2 THEN 1 ELSE 0),
         month |-> month,
         day |-> doy - (153 * mp + 2) \div 5 + 1,
         weekday |-> (daynum + 4) % 7]

\* what strftime prints for one directive
Directive(c, date) ==
    IF c = "Y" THEN DecStr(date.year)
    ELSE IF c = "m" THEN TwoDigits(date.month)
    ELSE IF c = "B" THEN MonthNames[date.month]
    ELSE IF c = "d" THEN TwoDigits(date.day)
    ELSE IF c = "A" THEN WeekdayNames[date.weekday + 1]
    ELSE <<"%", c>>

\* date.strftime(pattern)
RECURSIVE Strftime(_, _)
Strftime(pattern, date) ==
    IF pattern = <<>> THEN <<>>
    ELSE IF Head(pattern) = "%" /\ Len(pattern) >= 2
         THEN Directive(pattern[2], date) \o Strftime(SubSeq(pattern, 3, Len(pattern)), date)
         ELSE <<Head(pattern)>> \o Strftime(Tail(pattern), date)

DefaultHierarchy == <<"%","Y","/","%","m","-","%","B","/","%","d","-","%","A">>

\* config.get('storage', {}).get('hierarchy', '%Y/%m-%B/%d-%A')
Hierarchy(cfg) == IF cfg = Missing THEN DefaultHierarchy ELSE cfg

\* date.strftime(hierarchy) as the parts it adds below the destination
DatePath(date) == PathOf(Strftime(Hierarchy(config), date))

raw_extensions == {<<".","d","n","g">>, <<".","a","r","w">>, <<".","n","e","f">>, <<".","c","r","2">>,
                   <<".","c","r","3">>, <<".","o","r","f">>, <<".","r","w","2">>, <<".","r","a","f">>}

\* the while loop of resolve_name_collision
RECURSIVE CollisionLoop(_, _, _)
CollisionLoop(base, counter, existing) ==
    LET candidate == Join(Parent(base),
                          Stem(base) \o <<"_">> \o DecStr(counter) \o Suffix(base))
    IN  IF candidate \in existing
        THEN CollisionLoop(base, counter + 1, existing)
        ELSE candidate

resolve_name_collision(dest, existing) ==
    IF dest \notin existing THEN dest ELSE CollisionLoop(dest, 1, existing)


ClassifyIdle ==
    /\ files = <<>> /\ skip_visual = FALSE /\ files_data = <<>>
    /\ exact_duplicates = EmptyGraph /\ content_duplicates = EmptyGraph
    /\ visual_duplicates = EmptyGraph /\ burst_duplicates = EmptyGraph
    /\ all_duplicates = EmptyGraph /\ unique_files = <<>> /\ stats = NoStats

(***************************************************************************)
(* calculate_perceptual_similarity on its own: both argument orders.       *)
(***************************************************************************)
HashInputs ==
    [phash : {Missing, NoneHash, Rep("0", 16), Rep("0", 15) \o <<"f">>},
     dhash : {Missing, Rep("1", 16), Rep("3", 16)},
     ahash : {Missing, Rep("2", 16)},
     whash : {Missing, Rep("0", 16), Rep("0", 14) \o Rep("f", 2), Rep("0", 4)},
     colorhash : {Missing, Rep("0", 11)}]

InitSim ==
    /\ pc = "compare"
    /\ arg_hashes1 \in HashInputs
    /\ arg_hashes2 \in HashInputs
    /\ sim12 = RZero /\ sim21 = RZero
    /\ ClassifyIdle /\ GroupIdle /\ PlanIdle /\ BestIdle /\ CollisionIdle /\ RunIdle /\ ExecIdle

Compare ==
    /\ pc = "compare"
    /\ sim12' = calculate_perceptual_similarity(arg_hashes1, arg_hashes2)
    /\ sim21' = calculate_perceptual_similarity(arg_hashes2, arg_hashes1)
    /\ pc' = "compared"
    /\ UNCHANGED <<arg_hashes1, arg_hashes2, classifyVars, groupVars, planVars,
                   bestVars, collisionVars, runVars, execVars>>

NextSim == Compare

SpecSim == InitSim /\ [][NextSim]_vars

(***************************************************************************)
(* group_by_time on its own.                                               *)
(***************************************************************************)
TimeValues == {0, 5, 6, 12, 13, 20}

\* the i-th record of a list: only its timestamp is read
TimedRecord(i, timestamp) ==
    [path |-> InPath(<<"t", HexDigits[i + 1]>>), timestamp |-> timestamp]

TimedLists ==
    UNION {{[i \in 1..n |-> TimedRecord(i, ts[i])] : ts \in [1..n -> TimeValues]}
           : n \in 0..MaxTimed}

InitGroup ==
    /\ pc = "group"
    /\ time_input \in TimedLists
    /\ time_groups = <<>>
    /\ ClassifyIdle /\ SimIdle /\ PlanIdle /\ BestIdle /\ CollisionIdle /\ RunIdle /\ ExecIdle

GroupByTime ==
    /\ pc = "group"
    /\ IF GroupByTimeRaises(time_input)
       THEN pc' = "raised" /\ UNCHANGED time_groups
       ELSE pc' = "grouped" /\ time_groups' = group_by_time(time_input)
    /\ UNCHANGED <<time_input, classifyVars, simVars, planVars,
                   bestVars, collisionVars, runVars, execVars>>

NextGroup == GroupByTime

SpecGroup == InitGroup /\ [][NextGroup]_vars

(***************************************************************************)
(* plan_moves on its own: a destination tree, the album index built from   *)
(* it, and a list of source files with their capture times.                *)
(***************************************************************************)
\* the source files and what get_timestamp_func returns for them
PlanLibrary == {
    [path |-> <<<<"s","r","c">>, <<"x">>, <<"a",".","j","p","g">>>>, timestamp |-> 0],
    [path |-> <<<<"s","r","c">>, <<"y">>, <<"a",".","j","p","g">>>>, timestamp |-> 0],
    [path |-> <<<<"s","r","c">>, <<"W","e","d","d","i","n","g">>, <<"b",".","d","n","g">>>>, timestamp |-> 1700000000],
    [path |-> <<<<"s","r","c">>, <<"W","e","d","d","i","n","g">>, <<"c",".","j","p","g">>>>, timestamp |-> 1700000000]
}
PlanPaths == {f.path : f \in PlanLibrary}
get_timestamp_func(file) == (CHOOSE f \in PlanLibrary : f.path = file).timestamp

\* directory names found at the top of the destination
DirNames == {<<"w","e","d","d","i","n","g","_","p","h","o","t","o","s">>, <<"s","u","m","m","e","r","-","f","u","n">>, <<"S","u","m","m","e","r","_","W","e","d","d","i","n","g","s">>, <<"r","a","w">>, <<"1","9","7","0">>}

\* files an earlier run may have left under the destination
EarlierFiles == {
    <<<<"d","e","s","t">>, <<"1","9","7","0">>, <<"0","1","-","J","a","n","u","a","r","y">>, <<"0","1","-","T","h","u","r","s","d","a","y">>, <<"a",".","j","p","g">>>>,
    <<<<"d","e","s","t">>, <<"1","9","7","0">>, <<"0","1","-","J","a","n","u","a","r","y">>, <<"0","1","-","T","h","u","r","s","d","a","y">>, <<"a","_","1",".","j","p","g">>>>,
    <<<<"d","e","s","t">>, <<"w","e","d","d","i","n","g","_","p","h","o","t","o","s">>, <<"c",".","j","p","g">>>>
}

\* mutant of PlannedDestination: a matching album is used for RAW files too
PlannedDestinationAlbumFirst(file, dict) ==
    LET date == CivilDate(get_timestamp_func(file))
        is_raw == Lower(Suffix(file)) \in raw_extensions
        album_destination == find_matching_album(file, dict)
        raw_dir == Join(destination, <<"r","a","w">>)
    IN  IF album_destination # NoAlbum
        THEN Join(album_destination, Name(file))
        ELSE IF is_raw
        THEN Join(Join(raw_dir, DecStr(date.year)), Name(file))
        ELSE Join(destination \o DatePath(date), Name(file))

\* the destination one file is planned to, before collision resolution
PlannedDestination(file, dict) ==
    LET date == CivilDate(get_timestamp_func(file))
        is_raw == Lower(Suffix(file)) \in raw_extensions
        album_destination == find_matching_album(file, dict)
        raw_dir == Join(destination, <<"r","a","w">>)
    IN  IF album_destination # NoAlbum /\ ~is_raw
        THEN Join(album_destination, Name(file))
        ELSE IF is_raw
        THEN Join(Join(raw_dir, DecStr(date.year)), Name(file))
        ELSE Join(destination \o DatePath(date), Name(file))

\* which counter of stats the file adds to
PlannedAs(file, dict) ==
    IF find_matching_album(file, dict) # NoAlbum /\ Lower(Suffix(file)) \notin raw_extensions
    THEN "assigned_to_album"
    ELSE IF Lower(Suffix(file)) \in raw_extensions THEN "raw_processed"
    ELSE "organized_by_date"

\* the loop of plan_moves
plan_moves(file_list, dict, existing) ==
    [i \in 1..Len(file_list) |->
        [file |-> file_list[i],
         final_destination |->
             resolve_name_collision(PlannedDestination(file_list[i], dict), existing),
         timestamp |-> get_timestamp_func(file_list[i])]]

\* the storage.hierarchy settings: none, or a pattern by year and month
Configs == {Missing, <<"%","Y","/","%","Y","-","%","m">>}

InitPlan ==
    /\ pc = "detect"
    /\ dest_dirs \in DistinctSeqs(DirNames, MaxDirs)
    /\ disk \in {d \in SUBSET EarlierFiles : \A f \in d : f[2] \in Range(dest_dirs)}
    /\ plan_files \in DistinctSeqs(PlanPaths, MaxPlan)
    /\ albums = <<>> /\ moves = <<>> /\ plan_stats = NoPlanStats
    /\ config \in Configs
    /\ ClassifyIdle /\ SimIdle /\ GroupIdle /\ BestIdle /\ CollisionIdle /\ RunIdle /\ ExecIdle

DetectAlbums ==
    /\ pc = "detect"
    /\ albums' = detect_existing_albums(dest_dirs)
    /\ pc' = "plan"
    /\ UNCHANGED <<dest_dirs, plan_files, disk, moves, plan_stats, config>>

PlanMoves ==
    /\ pc = "plan"
    /\ moves' = plan_moves(plan_files, albums, disk)
    /\ plan_stats' =
          [counter \in DOMAIN plan_stats |->
              plan_stats[counter]
              + Cardinality({i \in 1..Len(plan_files) : PlannedAs(plan_files[i], albums) = counter})]
    /\ pc' = "planned"
    /\ UNCHANGED <<dest_dirs, albums, plan_files, disk, config>>

NextPlan ==
    \/ (DetectAlbums /\ UNCHANGED <<classifyVars, simVars, groupVars, bestVars, collisionVars, runVars, execVars>>)
    \/ (PlanMoves /\ UNCHANGED <<classifyVars, simVars, groupVars, bestVars, collisionVars, runVars, execVars>>)

SpecPlan == InitPlan /\ [][NextPlan]_vars

(***************************************************************************)
(* Properties of remove_duplicates (Spec).                                 *)
(***************************************************************************)
DataOf(file_str) == CHOOSE data \in Range(files_data) : PathStr(data.path) = file_str
Unique == Range(unique_files)

\* the records of files_data that share a non-empty hash with at least one other
SharedHashGroups(field) ==
    {Range(HashGroup(files_data, field, h)) : h \in GroupedHashes(files_data, field)}
    \ {g \in SUBSET Range(files_data) : Cardinality(g) < 2}

\* the paths some edge of the graph discards, as remove_duplicates reads it
DiscardTargets(graph) == FilesToRemove(graph)

\* C1: for every group of two or more records sharing a non-empty binary_hash,
\* exactly one member is in the returned unique set and every other member is
\* discarded through an edge with similarity 1.0 and reason exact.
C1_ExactGroupKeepsOne ==
    pc = "done" =>
        \A g \in SharedHashGroups("binary_hash") :
            /\ Cardinality({data \in g : data.path \in Unique}) = 1
            /\ \A data \in g :
                  data.path \notin Unique =>
                      \E e \in Edges(exact_duplicates) :
                          LET edge == exact_duplicates[e[1]][e[2]]
                          IN  /\ edge.match_path = PathStr(data.path)
                              /\ edge.similarity = ROne
                              /\ edge.tipo = "exact"

\* the list a group was built as (input order), for select_best_file
GroupList(g, field) == HashGroup(files_data, field, (CHOOSE data \in g : TRUE)[field])

\* C2: in an exact or content group the record that stays in the unique set is
\* the one select_best_file returns and the removed records are the others; a
\* RAW file wins over a byte-identical JPEG file.
C2_BestOfGroupSurvives ==
    pc = "done" =>
        \A field \in {"binary_hash", "content_hash"} :
            \A g \in SharedHashGroups(field) :
                \A data \in g :
                    (data.path \in Unique) <=> (data = select_best_file(GroupList(g, field)))

\* the graphs of the passes that ran
RanGraphs ==
    IF skip_visual THEN {exact_duplicates, content_duplicates}
    ELSE {exact_duplicates, content_duplicates, visual_duplicates, burst_duplicates}

\* C4: the unique set is the input path set minus the discard targets of every
\* edge emitted by every pass that ran; merging the partial graphs loses no edge.
C4_UniqueIsInputMinusAllTargets ==
    pc = "done" =>
        Unique = Range(files) \ UNION {DiscardTargets(graph) : graph \in RanGraphs}

\* the edges of a graph with their keys
KeyedEdges(graph) ==
    {[key |-> e[1], edge |-> graph[e[1]][e[2]]] : e \in Edges(graph)}

\* C5: no exact edge joins records on an empty binary_hash and no content edge
\* joins records on an empty content_hash: both ends of such an edge carry the
\* same non-empty hash.
C5_NoEdgeOnEmptyHash ==
    /\ \A ke \in KeyedEdges(exact_duplicates) :
          /\ DataOf(ke.key).binary_hash # ""
          /\ DataOf(ke.key).binary_hash = DataOf(ke.edge.match_path).binary_hash
    /\ \A ke \in KeyedEdges(content_duplicates) :
          /\ DataOf(ke.key).content_hash # ""
          /\ DataOf(ke.key).content_hash = DataOf(ke.edge.match_path).content_hash
    /\ \A ke \in KeyedEdges(all_duplicates) :
          /\ ke.edge.tipo = "exact" => DataOf(ke.key).binary_hash # ""
          /\ ke.edge.tipo = "content" => DataOf(ke.key).content_hash # ""

\* two records without binary and content hash went through both hash passes
\* together with a third record, and neither was keyed or discarded
C5_Witness ==
    /\ pc = "done"
    /\ Len(files_data) = 3
    /\ \E d1, d2 \in Range(files_data) :
          /\ d1 # d2
          /\ d1.binary_hash = "" /\ d2.binary_hash = ""
          /\ d1.content_hash = "" /\ d2.content_hash = ""
          /\ d1.path \in Unique /\ d2.path \in Unique

(***************************************************************************)
(* Properties of calculate_perceptual_similarity (SpecSim).                *)
(***************************************************************************)
\* C6: every similarity the classifier computes lies in [0, 1].
C6_SimilarityInUnitInterval ==
    pc = "compared" => RLeq(RZero, sim12) /\ RLeq(sim12, ROne)

\* the per-kind similarity of a kind both mappings hold and that parses
KindSimilarity(h1, h2, tipo) ==
    IF tipo \in {"dhash", "ahash"}
    THEN (IF h1[tipo] = h2[tipo] THEN ROne ELSE RZero)
    ELSE RSub(ROne, Rat(Hamming(h1[tipo], h2[tipo]), 64))

\* the kinds that take part in the mean: held by both and comparable
ComparedKinds(h1, h2) ==
    {tipo \in HashKinds :
        /\ Has(h1, tipo) /\ Has(h2, tipo)
        /\ tipo = "phash" => ParsesHex(h1[tipo]) /\ ParsesHex(h2[tipo])
        /\ tipo \in {"whash", "colorhash"} => ~ImageHashRaises(h1[tipo], h2[tipo])}

RECURSIVE SumOverKinds(_, _, _)
SumOverKinds(h1, h2, kinds) ==
    IF kinds = {} THEN RZero
    ELSE LET tipo == CHOOSE k \in kinds : TRUE
         IN  RAdd(RMul(KindSimilarity(h1, h2, tipo),
                       Rat(IF tipo = "phash" THEN 2 ELSE 1, 1)),
                  SumOverKinds(h1, h2, kinds \ {tipo}))

\* the mean in which phash counts as two samples
MeanWithPhashTwice(h1, h2) ==
    LET kinds == ComparedKinds(h1, h2)
        samples == Cardinality(kinds) + (IF "phash" \in kinds THEN 1 ELSE 0)
    IN  IF kinds = {} THEN RZero
        ELSE RDivInt(SumOverKinds(h1, h2, kinds), samples)

\* C7: the result is the arithmetic mean of the per-kind similarities in which
\* phash is counted as two samples (twice in the sum, twice in the count), 0.0
\* without a common kind, a kind that cannot be parsed being skipped.
C7_MeanCountsPhashTwice ==
    pc = "compared" => sim12 = MeanWithPhashTwice(arg_hashes1, arg_hashes2)

\* C8: calculate_perceptual_similarity(a, b) = calculate_perceptual_similarity(b, a).
C8_SimilaritySymmetric ==
    pc = "compared" => sim12 = sim21

\* two different mappings, one kind held by one side only, a non-zero result
C8_Witness ==
    /\ pc = "compared"
    /\ arg_hashes1 # arg_hashes2
    /\ Has(arg_hashes1, "dhash") /\ ~Has(arg_hashes2, "dhash")
    /\ Has(arg_hashes1, "whash") /\ Has(arg_hashes2, "whash")
    /\ arg_hashes1["whash"] # arg_hashes2["whash"]
    /\ sim12 # RZero

(***************************************************************************)
(* Properties of the burst pass (Spec) and of group_by_time (SpecGroup).   *)
(***************************************************************************)
BurstRan == pc \in {"process", "done"} /\ ~skip_visual

SharesHash(d1, d2) ==
    \/ (d1.binary_hash # "" /\ d1.binary_hash = d2.binary_hash)
    \/ (d1.content_hash # "" /\ d1.content_hash = d2.content_hash)

\* the sets of records the claim is about: two or more records of one burst group,
\* no two sharing a hash, each pair with a combined score above 0.8
BurstClusters ==
    UNION {{S \in SUBSET Range(files_data) :
               /\ Cardinality(S) >= 2
               /\ S \subseteq Range(group_by_time(files_data)[gi])
               /\ \A d1, d2 \in S :
                     d1 # d2 => /\ ~SharesHash(d1, d2)
                                /\ RLess(Rat(8, 10), TotalSimilarity(d1, d2))}
           : gi \in 1..Len(group_by_time(files_data))}

\* the record is the target of a burst edge whose key is a record of S
BurstDiscardedBy(S, data) ==
    \E ke \in KeyedEdges(burst_duplicates) :
        /\ ke.key \in {PathStr(d.path) : d \in S}
        /\ ke.edge.match_path = PathStr(data.path)
        /\ ke.edge.tipo = "burst"

HighestScored(S) == CHOOSE d \in S : \A o \in S : score_file(o) <= score_file(d)

\* position of a record in the capture-time order group_by_time works on
TimeRank(data) ==
    CHOOSE i \in 1..Len(files_data) : SortByTime(files_data)[i] = data
EarliestOf(S) == CHOOSE d \in S : \A o \in S : TimeRank(d) <= TimeRank(o)

\* C9 as claimed: of such records the burst pass keeps the one with the highest
\* best-candidate score and discards every other one with reason burst.
C9_BurstKeepsHighestScored ==
    BurstRan =>
        \A S \in BurstClusters :
            \A data \in S :
                BurstDiscardedBy(S, data) <=> data # HighestScored(S)

\* C9 as amended: of such records the burst pass keeps the one that comes first
\* in capture-time order (first in input order among equal capture times) and
\* discards every other one with reason burst, whatever their scores.
C9_BurstKeepsEarliest ==
    BurstRan =>
        \A S \in BurstClusters :
            \A data \in S :
                BurstDiscardedBy(S, data) <=> data # EarliestOf(S)

\* three shots of one burst, given in an order that is not their capture order,
\* the earliest of them not being the best-scored one
C9_Witness ==
    /\ pc = "done" /\ ~skip_visual
    /\ \E S \in BurstClusters :
          /\ Cardinality(S) = 3
          /\ EarliestOf(S) # HighestScored(S)
          /\ EarliestOf(S) # files_data[1]
          /\ \A data \in S \ {EarliestOf(S)} : data.path \notin Unique

\* C10: group_by_time returns only groups of two or more records; inside a group
\* the records are in capture-time order with every consecutive gap at most
\* temporal_threshold; and the groups are maximal: two records at most
\* temporal_threshold apart are always in the same group.
C10_GroupsMaximalRuns ==
    pc = "grouped" =>
        /\ \A g \in 1..Len(time_groups) :
              /\ Len(time_groups[g]) >= 2
              /\ Range(time_groups[g]) \subseteq Range(time_input)
              /\ \A i \in 1..(Len(time_groups[g]) - 1) :
                    /\ time_groups[g][i].timestamp <= time_groups[g][i + 1].timestamp
                    /\ time_groups[g][i + 1].timestamp - time_groups[g][i].timestamp
                          <= temporal_threshold
        /\ \A g, h \in 1..Len(time_groups) :
              g # h => Range(time_groups[g]) \cap Range(time_groups[h]) = {}
        /\ \A r1, r2 \in Range(time_input) :
              (r1 # r2 /\ Abs(r1.timestamp - r2.timestamp) <= temporal_threshold)
                  => \E g \in 1..Len(time_groups) :
                        r1 \in Range(time_groups[g]) /\ r2 \in Range(time_groups[g])

\* two groups next to each other, the gap between them above the threshold and a
\* gap of exactly the threshold inside one of them
C10_Witness ==
    /\ pc = "grouped"
    /\ Len(time_groups) = 2
    /\ \E g \in 1..2 : \E i \in 1..(Len(time_groups[g]) - 1) :
          time_groups[g][i + 1].timestamp - time_groups[g][i].timestamp = temporal_threshold
    /\ time_input # SortByTime(time_input)

(***************************************************************************)
(* Properties of plan_moves (SpecPlan).                                    *)
(***************************************************************************)
\* C3: the destination paths of one plan are pairwise distinct; two files of a
\* batch that resolve to the same free initial destination are planned to
\* a.jpg and a_1.jpg, in that order.
C3_DestinationsDistinct ==
    pc = "planned" =>
        \A i, j \in 1..Len(moves) :
            i < j =>
                /\ moves[i].final_destination # moves[j].final_destination
                /\ (/\ PlannedDestination(plan_files[i], albums)
                          = PlannedDestination(plan_files[j], albums)
                    /\ PlannedDestination(plan_files[i], albums) \notin disk)
                   => /\ moves[i].final_destination
                            = PlannedDestination(plan_files[i], albums)
                      /\ moves[j].final_destination
                            = CollisionLoop(PlannedDestination(plan_files[i], albums), 1, {})

(***************************************************************************)
(* select_best_file on its own: a cluster of candidate records and the     *)
(* same records in another order.                                          *)
(***************************************************************************)
\* most records in one cluster
MaxCluster == 3

Candidate(name, size, features) ==
    [path |-> InPath(name), size |-> size, features |-> features]

\* the records clusters are built from; several of them have the same score
CandidatePool == {
    Candidate(<<"x",".","d","n","g">>, 1000, PictureFeatures),
    Candidate(<<"x",".","c","r","3">>, 1000, PictureFeatures),
    Candidate(<<"x",".","j","p","g">>, 1000, PictureFeatures),
    Candidate(<<"y",".","j","p","e","g">>, 1000, PictureFeatures),
    Candidate(<<"y",".","p","n","g">>, 1500, PictureFeatures),
    Candidate(<<"z",".","J","P","G">>, 999, Features(Rat(4, 3), 2200, Rat(100, 1))),
    Candidate(<<"n",".","j","p","g">>, 1000, NoFeatures),
    Candidate(<<"w",".","g","i","f">>, 12000, PictureFeatures)
}

\* the orders one list of records can be given in
Orders(s) == {q \in DistinctSeqs(Range(s), Len(s)) : Len(q) = Len(s)}

InitBest ==
    /\ pc = "select"
    /\ cluster \in {c \in DistinctSeqs(CandidatePool, MaxCluster) : Len(c) >= 1}
    /\ permuted \in Orders(cluster)
    /\ best = NoBest /\ best_permuted = NoBest
    /\ ClassifyIdle /\ SimIdle /\ GroupIdle /\ PlanIdle /\ CollisionIdle /\ RunIdle /\ ExecIdle

SelectBest ==
    /\ pc = "select"
    /\ best' = select_best_file(cluster)
    /\ best_permuted' = select_best_file(permuted)
    /\ pc' = "selected"
    /\ UNCHANGED <<cluster, permuted, classifyVars, simVars, groupVars, planVars,
                   collisionVars, runVars, execVars>>

NextBest == SelectBest

SpecBest == InitBest /\ [][NextBest]_vars

(***************************************************************************)
(* Properties of select_best_file (SpecBest).                              *)
(***************************************************************************)
DistinctScores(s) ==
    \A i, j \in 1..Len(s) : i # j => score_file(s[i]) # score_file(s[j])

\* C11: select_best_file returns a record of the cluster with the maximum score
\* size + 0.001*pixels + extension bonus; when the scores of the cluster are
\* pairwise distinct every order of the cluster yields the same record; when
\* several records tie on the maximum the first of them in input order is
\* returned.
C11_BestIsFirstMaximum ==
    pc = "selected" =>
        /\ \E i \in 1..Len(cluster) :
              /\ best = cluster[i]
              /\ \A j \in 1..Len(cluster) : score_file(cluster[j]) <= score_file(best)
              /\ \A j \in 1..(i - 1) : score_file(cluster[j]) < score_file(best)
        /\ DistinctScores(cluster) => best_permuted = best

\* a record of lower score first, then two records that tie on the maximum: the
\* first of the two is returned, and the other one when their order is swapped
C11_Witness ==
    /\ pc = "selected"
    /\ Len(cluster) = MaxCluster
    /\ score_file(cluster[1]) < score_file(cluster[2])
    /\ score_file(cluster[2]) = score_file(cluster[MaxCluster])
    /\ best = cluster[2]
    /\ best_permuted = cluster[MaxCluster]

\* the pixel count score_file reads, when the record has one
HasPixels(data) == "pixels" \in data.features.keys

\* C12: a record whose extension is in the planner's RAW set scores strictly
\* higher than a record with a non-RAW extension, the same size and the same
\* pixel count.
C12_RawOutscoresNonRaw ==
    pc = "selected" =>
        \A r, o \in Range(cluster) :
            (/\ Lower(Suffix(r.path)) \in raw_extensions
             /\ Lower(Suffix(o.path)) \notin raw_extensions
             /\ r.size = o.size
             /\ HasPixels(r) = HasPixels(o)
             /\ HasPixels(r) => r.features.pixels = o.features.pixels)
                => score_file(o) < score_file(r)

(***************************************************************************)
(* Properties of the album index and of plan_moves (SpecPlan).             *)
(***************************************************************************)
IndexBuilt == pc \in {"plan", "planned"}

\* the directories that register a key, by their position in iterdir order
Registering(key) ==
    {j \in 1..Len(dest_dirs) :
        dest_dirs[j] \notin ReservedNames /\ key \in Range(AlbumKeys(dest_dirs[j]))}

\* C13: when two directories produce the same index key, the key maps to the
\* directory registered first; a later directory never replaces it.
C13_FirstRegisteredWins ==
    IndexBuilt =>
        \A i \in 1..Len(albums) :
            \E j \in Registering(albums[i].key) :
                /\ \A k \in Registering(albums[i].key) : j <= k
                /\ albums[i].path = Join(destination, dest_dirs[j])

\* pass (a): the index positions whose key occurs in the lowercased full path
WholePathHits(file) ==
    {i \in 1..Len(albums) : IsSubstring(albums[i].key, Lower(PathStr(file)))}

\* pass (b): the index positions whose key contains, or is contained in, some
\* lowercased path segment
SegmentHits(file) ==
    {i \in 1..Len(albums) :
        \E j \in 1..Len(file) :
            \/ IsSubstring(albums[i].key, Lower(file[j]))
            \/ IsSubstring(Lower(file[j]), albums[i].key)}

Least(S) == CHOOSE i \in S : \A j \in S : i <= j

\* C14: find_matching_album runs pass (a) over the whole index before pass (b):
\* when some key occurs in the lowercased full path the result is the directory
\* of the first such key in index order, also when an earlier key would match a
\* path segment under pass (b); otherwise it is the directory of the first key
\* that pass (b) matches; it returns no album exactly when neither pass hits.
\* A file that is not RAW is planned into the directory so found.
C14_WholePathPassFirst ==
    pc = "planned" =>
        \A n \in 1..Len(plan_files) :
            LET file == plan_files[n]
                found == find_matching_album(file, albums)
            IN  /\ WholePathHits(file) # {}
                      => found = albums[Least(WholePathHits(file))].path
                /\ (WholePathHits(file) = {} /\ SegmentHits(file) # {})
                      => found = albums[Least(SegmentHits(file))].path
                /\ found = NoAlbum <=> (WholePathHits(file) = {} /\ SegmentHits(file) = {})
                /\ (found # NoAlbum /\ Lower(Suffix(file)) \notin raw_extensions)
                      => Parent(moves[n].final_destination) = found

\* a key of the first directory matches a path segment under pass (b) only, a
\* key of the second directory occurs in the full path: the file goes to the
\* second directory
C14_Witness ==
    /\ pc = "planned"
    /\ \E n \in 1..Len(plan_files) :
          /\ WholePathHits(plan_files[n]) # {}
          /\ SegmentHits(plan_files[n]) # {}
          /\ Least(SegmentHits(plan_files[n])) < Least(WholePathHits(plan_files[n]))
          /\ albums[Least(SegmentHits(plan_files[n]))].path
                # albums[Least(WholePathHits(plan_files[n]))].path
          /\ Parent(moves[n].final_destination)
                = albums[Least(WholePathHits(plan_files[n]))].path

\* the directories detect_existing_albums does not skip
AlbumDirs == {d \in Range(dest_dirs) : d \notin ReservedNames}

\* a name with "_" and "-" turned into blanks
Blanked(str) ==
    [i \in 1..Len(str) |-> IF str[i] \in {"_", "-"} THEN " " ELSE str[i]]

\* the whitespace-delimited tokens of a string: its maximal blank-free runs
TokenSpans(str) ==
    {ij \in (1..Len(str)) \X (1..Len(str)) :
        /\ ij[1] <= ij[2]
        /\ \A k \in ij[1]..ij[2] : str[k] # " "
        /\ ij[1] = 1 \/ str[ij[1] - 1] = " "
        /\ ij[2] = Len(str) \/ str[ij[2] + 1] = " "}
Tokens(str) == {SubSeq(str, ij[1], ij[2]) : ij \in TokenSpans(str)}

\* the keys the claim lists for one directory name
ClaimedKeys(name) ==
    {Lower(name), Blanked(Lower(name))}
    \cup {w \in Tokens(Blanked(Lower(name))) : Len(w) > 3}

wedding == <<"w","e","d","d","i","n","g">>
wedding_photos == <<"w","e","d","d","i","n","g","_","p","h","o","t","o","s">>

\* C15: the index holds, for every top-level directory whose name is not
\* reserved, the lowercased name, the name with "_" and "-" replaced by blanks
\* and every token of that form longer than 3 characters, each mapped to a
\* directory that registers it, and nothing else, so nothing for a reserved
\* name; and when wedding_photos is the only album directory every file whose
\* lowercased path contains wedding is matched to it.
C15_IndexKeysAndWeddingMatch ==
    IndexBuilt =>
        /\ {albums[i].key : i \in 1..Len(albums)} = UNION {ClaimedKeys(d) : d \in AlbumDirs}
        /\ \A i, j \in 1..Len(albums) : albums[i].key = albums[j].key => i = j
        /\ \A i \in 1..Len(albums) :
              \E d \in AlbumDirs :
                  albums[i].key \in ClaimedKeys(d) /\ albums[i].path = Join(destination, d)
        /\ AlbumDirs = {wedding_photos} =>
              \A n \in 1..Len(plan_files) :
                  IsSubstring(wedding, Lower(PathStr(plan_files[n])))
                      => find_matching_album(plan_files[n], albums)
                             = Join(destination, wedding_photos)

\* the index was built from wedding_photos next to the reserved raw directory,
\* and a JPEG file under a directory Wedding was planned into the album
C15_Witness ==
    /\ pc = "planned"
    /\ AlbumDirs = {wedding_photos}
    /\ Len(dest_dirs) = 2
    /\ \E n \in 1..Len(plan_files) :
          /\ IsSubstring(wedding, Lower(PathStr(plan_files[n])))
          /\ ~IsSubstring(wedding, PathStr(plan_files[n]))
          /\ Parent(moves[n].final_destination) = Join(destination, wedding_photos)

IsRaw(file) == Lower(Suffix(file)) \in raw_extensions
HasAlbum(file) == find_matching_album(file, albums) # NoAlbum

\* the directory each of the three rules names for a file
RawYearDir(file) ==
    <<destination[1], <<"r","a","w">>, DecStr(CivilDate(get_timestamp_func(file)).year)>>
DateDir(file) == destination \o DatePath(CivilDate(get_timestamp_func(file)))

\* the files of the batch that add to one counter of the statistics
CountOf(S) == Cardinality({n \in 1..Len(plan_files) : plan_files[n] \in S})

\* C16: a RAW file is planned under <dest>/raw/<year>/ even when an album
\* matches its path; a file that is not RAW and has a matching album is planned
\* into that album; a file that is not RAW and has no matching album is planned
\* under <dest>/<date path>/; every file falls under exactly one of the three
\* rules and adds one to the counter of that rule.
C16_RawThenAlbumThenDate ==
    pc = "planned" =>
        /\ Len(moves) = Len(plan_files)
        /\ \A n \in 1..Len(plan_files) :
              LET file == plan_files[n]
                  dir == Parent(moves[n].final_destination)
              IN  /\ moves[n].file = file
                  /\ IsRaw(file) => dir = RawYearDir(file)
                  /\ (~IsRaw(file) /\ HasAlbum(file))
                        => dir = find_matching_album(file, albums)
                  /\ (~IsRaw(file) /\ ~HasAlbum(file)) => dir = DateDir(file)
        /\ plan_stats.raw_processed = CountOf({f \in PlanPaths : IsRaw(f)})
        /\ plan_stats.assigned_to_album
              = CountOf({f \in PlanPaths : ~IsRaw(f) /\ HasAlbum(f)})
        /\ plan_stats.organized_by_date
              = CountOf({f \in PlanPaths : ~IsRaw(f) /\ ~HasAlbum(f)})

\* a RAW file and a JPEG file of one source directory that an album matches:
\* the RAW file went to the raw archive, the JPEG file into the album
C16_Witness ==
    /\ pc = "planned"
    /\ \E n, m \in 1..Len(plan_files) :
          /\ IsRaw(plan_files[n]) /\ HasAlbum(plan_files[n])
          /\ Parent(moves[n].final_destination) = RawYearDir(plan_files[n])
          /\ ~IsRaw(plan_files[m]) /\ HasAlbum(plan_files[m])
          /\ Parent(moves[m].final_destination)
                = find_matching_album(plan_files[m], albums)
          /\ plan_stats.raw_processed = 1 /\ plan_stats.assigned_to_album = 1

(***************************************************************************)
(* resolve_name_collision on its own, one step per test of the loop        *)
(* condition, on a directory that holds some files already.                *)
(***************************************************************************)
\* highest counter among the numbered files found in the directory
MaxTaken == 3

InAlbum(name) == <<destination[1], <<"a","l","b","u","m">>, name>>

\* base.parent / f"{stem}_{counter}{suffix}"
NumberedName(path, k) ==
    Join(Parent(path), Stem(path) \o <<"_">> \o DecStr(k) \o Suffix(path))

\* the paths resolve_name_collision is called with
CollisionInputs == {
    InAlbum(<<"a",".","j","p","g">>),
    InAlbum(<<"a","_","1",".","j","p","g">>),
    InAlbum(<<"b",".","t","a","r",".","g","z">>),
    InAlbum(<<"R","E","A","D","M","E">>)
}

\* the files the directory may hold
CollisionFiles ==
    CollisionInputs
    \cup {NumberedName(InAlbum(<<"a",".","j","p","g">>), k) : k \in 1..MaxTaken}
    \cup {NumberedName(NumberedName(InAlbum(<<"a",".","j","p","g">>), 1), 1),
          NumberedName(InAlbum(<<"b",".","t","a","r",".","g","z">>), 1),
          NumberedName(InAlbum(<<"R","E","A","D","M","E">>), 1)}

InitCollision ==
    /\ pc = "called"
    /\ collision_destination \in CollisionInputs
    /\ disk \in SUBSET CollisionFiles
    /\ collision_base = <<>> /\ collision_counter = 0
    /\ dest_dirs = <<>> /\ albums = <<>> /\ plan_files = <<>> /\ moves = <<>>
    /\ plan_stats = NoPlanStats /\ config = Missing
    /\ ClassifyIdle /\ SimIdle /\ GroupIdle /\ BestIdle /\ RunIdle /\ ExecIdle

\* `if not destination.exists(): return destination`
ReturnFree ==
    /\ pc = "called"
    /\ collision_destination \notin disk
    /\ pc' = "returned"
    /\ UNCHANGED collisionVars

\* counter = 1; base = destination
EnterLoop ==
    /\ pc = "called"
    /\ collision_destination \in disk
    /\ collision_counter' = 1
    /\ collision_base' = collision_destination
    /\ pc' = "loop"
    /\ UNCHANGED collision_destination

\* mutant of LoopBody: the counter is not incremented
LoopBodySameCounter ==
    /\ pc = "loop"
    /\ collision_destination \in disk
    /\ collision_destination' = NumberedName(collision_base, collision_counter)
    /\ UNCHANGED <<pc, collision_base, collision_counter>>

\* the body of the while loop, run when destination.exists()
LoopBody ==
    /\ pc = "loop"
    /\ collision_destination \in disk
    /\ collision_destination' = NumberedName(collision_base, collision_counter)
    /\ collision_counter' = collision_counter + 1
    /\ UNCHANGED <<pc, collision_base>>

\* the loop condition fails: return destination
LoopExit ==
    /\ pc = "loop"
    /\ collision_destination \notin disk
    /\ pc' = "returned"
    /\ UNCHANGED collisionVars

NextCollision ==
    \/ (ReturnFree /\ UNCHANGED <<classifyVars, simVars, groupVars, planVars, bestVars, runVars, execVars>>)
    \/ (EnterLoop /\ UNCHANGED <<classifyVars, simVars, groupVars, planVars, bestVars, runVars, execVars>>)
    \/ (LoopBody /\ UNCHANGED <<classifyVars, simVars, groupVars, planVars, bestVars, runVars, execVars>>)
    \/ (LoopExit /\ UNCHANGED <<classifyVars, simVars, groupVars, planVars, bestVars, runVars, execVars>>)

\* the code is sequential: a call that can take a step takes it
SpecCollision == InitCollision /\ [][NextCollision]_vars /\ WF_vars(NextCollision)

(***************************************************************************)
(* Properties of resolve_name_collision (SpecCollision).                   *)
(***************************************************************************)
\* the path returned after a collision on `path`: the counter k before the suffix
IsNumbered(path, result, k) ==
    /\ Parent(result) = Parent(path)
    /\ Name(result) = Stem(path) \o <<"_">> \o DecStr(k) \o Suffix(path)
    /\ Stem(path) \o Suffix(path) = Name(path)

\* C17: resolve_name_collision terminates, the path it returns does not exist;
\* it returns the path it was called with when that path is free, and otherwise
\* name_k.ext for the smallest k >= 1 such that name_k.ext does not exist, the
\* counter standing before the file extension.
C17_ReturnsFirstFreeName ==
    /\ <>(pc = "returned")
    /\ [](pc = "returned" => collision_destination \notin disk)
    /\ [][(pc = "called" /\ collision_destination \notin disk)
             => (pc' = "returned" /\ collision_destination' = collision_destination)]_vars
    /\ [][(pc = "called" /\ collision_destination \in disk)
             => (pc' = "loop" /\ collision_base' = collision_destination)]_vars
    /\ []((pc = "returned" /\ collision_base # <<>>)
             => \E k \in 1..(MaxTaken + 1) :
                   /\ IsNumbered(collision_base, collision_destination, k)
                   /\ \A j \in 1..(k - 1) :
                         \E taken \in disk : IsNumbered(collision_base, taken, j))

\* a.jpg and a_1.jpg exist: the call on a.jpg returned a_2.jpg
C17_Witness ==
    /\ pc = "returned"
    /\ collision_base \in disk
    /\ NumberedName(collision_base, 1) \in disk
    /\ collision_destination = NumberedName(collision_base, 2)
    /\ Suffix(collision_base) # <<>>

(***************************************************************************)
(* Properties of the visual pass and of skip_visual (Spec).                *)
(***************************************************************************)
VisualRan == pc \in {"burst", "process", "done", "raised"} /\ ~skip_visual

\* the perceptual similarity of the i-th and the j-th record
PairSimilarity(i, j) ==
    calculate_perceptual_similarity(files_data[i].perceptual_hashes,
                                    files_data[j].perceptual_hashes)

\* the visual edges that name the i-th record as kept and the j-th as discarded
VisualEdges(i, j) ==
    {e \in Edges(visual_duplicates) :
        /\ e[1] = PathStr(files_data[i].path)
        /\ visual_duplicates[e[1]][e[2]].match_path = PathStr(files_data[j].path)}

\* C18: for every pair of records the visual pass emits exactly one edge when
\* their perceptual similarity is strictly greater than visual_threshold and no
\* edge otherwise, in particular none for a similarity equal to the threshold;
\* the edge is keyed by the record that is earlier in input order and discards
\* the later one, it carries the similarity and the reason visual.
C18_VisualEdgeIffAboveThreshold ==
    VisualRan =>
        /\ \A i, j \in 1..Len(files_data) :
              /\ (i < j /\ RLess(visual_threshold, PairSimilarity(i, j)))
                    => /\ Cardinality(VisualEdges(i, j)) = 1
                       /\ \A e \in VisualEdges(i, j) :
                             /\ visual_duplicates[e[1]][e[2]].similarity = PairSimilarity(i, j)
                             /\ visual_duplicates[e[1]][e[2]].tipo = "visual"
              /\ (i < j /\ ~RLess(visual_threshold, PairSimilarity(i, j)))
                    => VisualEdges(i, j) = {}
              /\ i >= j => VisualEdges(i, j) = {}
        /\ \A e \in Edges(visual_duplicates) :
              \E i, j \in 1..Len(files_data) : e \in VisualEdges(i, j)
        /\ stats.visual_duplicates = EdgeCount(visual_duplicates)

\* three records: two whose similarity is above the threshold, the later of
\* them discarded by the edge of the earlier, and two whose similarity equals
\* the threshold, with no edge between them
C18_Witness ==
    /\ pc = "done" /\ ~skip_visual
    /\ Len(files_data) = 3
    /\ \E i, j \in 1..Len(files_data) :
          /\ i < j /\ PairSimilarity(i, j) = visual_threshold
          /\ VisualEdges(i, j) = {}
    /\ \E i, j \in 1..Len(files_data) :
          /\ i < j /\ RLess(visual_threshold, PairSimilarity(i, j))
          /\ VisualEdges(i, j) # {}
          /\ files_data[i].path \in Unique
          /\ files_data[j].path \notin Unique

\* what a run with skip_visual may have done: only the two hash passes
OnlyHashPasses ==
    /\ pc \notin {"visual", "burst", "raised"}
    /\ visual_duplicates = EmptyGraph /\ burst_duplicates = EmptyGraph
    /\ stats.visual_duplicates = 0 /\ stats.burst_duplicates = 0
    /\ \A ke \in KeyedEdges(all_duplicates) : ke.edge.tipo \in {"exact", "content"}
    /\ pc = "done" =>
          unique_files = SelectSeq(files, LAMBDA file :
              file \notin FilesToRemove(Update(exact_duplicates, content_duplicates)))

\* C19: in a run with skip_visual neither the visual nor the burst pass runs:
\* no edge with reason visual or burst exists, the visual and burst counters
\* stay unchanged and the unique set is what the exact and content passes
\* leave; the burst pass starts only when the visual pass has just ended, in a
\* run without skip_visual, and only the burst pass writes burst edges.
C19_SkipVisualSkipsBurst ==
    /\ [](skip_visual => OnlyHashPasses)
    /\ [][pc' = "burst" => (pc = "visual" /\ ~skip_visual)]_vars
    /\ [][(burst_duplicates' # burst_duplicates
            \/ stats'.burst_duplicates # stats.burst_duplicates)
             => (pc = "burst" /\ ~skip_visual)]_vars
    /\ [][pc' = "visual" => (pc = "content" /\ ~skip_visual)]_vars

\* a run with skip_visual ended with two records in the unique set whose
\* perceptual similarity is above the threshold
C19_Witness ==
    /\ pc = "done" /\ skip_visual
    /\ \E i, j \in 1..Len(files_data) :
          /\ i < j /\ RLess(visual_threshold, PairSimilarity(i, j))
          /\ files_data[i].path \in Unique /\ files_data[j].path \in Unique

(***************************************************************************)
(* ConsolidadorFotos.ejecutar_consolidacion: one run of the whole pipeline *)
(* on the photo library, one action per stage.  The components it builds   *)
(* are GestorArchivos (file_manager.py), DetectorDuplicadosAvanzado        *)
(* (duplicater.py) and OrganizadorFotos (organizer.py).                    *)
(***************************************************************************)
\* most files found under the source
MaxRun == 2

\* the resolved source /in and temporary directory /tmp, written like the
\* destination without the root part (no album key contains a "/")
InRoot == <<<<"i","n">>>>
temp_dir == <<<<"t","m","p">>>>

\* self.origen in archivo.parents
IsUnder(root, path) == Len(path) > Len(root) /\ SubSeq(path, 1, Len(root)) = root

\* GestorArchivos.get_creation_time: its last resort is file_path.stat()
CreationTimeRaises(file) == ~OnDisk(file).readable
get_creation_time(file) == OnDisk(file).timestamp

NombresReservados == {<<"r","a","w">>, <<"t","e","m","p">>, <<"d","u","p","l","i","c","a","d","o","s">>, <<".","g","i","t">>}

\* the loop of detectar_albumes_existentes over the directories from index i on
RECURSIVE DetectarLoop(_, _, _, _)
DetectarLoop(root, dirs, i, dict) ==
    IF i > Len(dirs) THEN dict
    ELSE DetectarLoop(root, dirs, i + 1,
                      IF dirs[i] \notin NombresReservados
                      THEN DictSetAll(dict, AlbumKeys(dirs[i]), Join(root, dirs[i]))
                      ELSE dict)

detectar_albumes_existentes(root, dirs) == DetectarLoop(root, dirs, 1, <<>>)

\* the destination planificar_movimientos gives one file, before collision
\* resolution; encontrar_album_coincidente is find_matching_album line for line
DestinoConFecha(archivo, dict, root, timestamp) ==
    LET fecha == CivilDate(timestamp)
        es_raw == Lower(Suffix(archivo)) \in raw_extensions
        album_destino == find_matching_album(archivo, dict)
        raw_dir == Join(root, <<"r","a","w">>)
    IN  IF album_destino # NoAlbum /\ ~es_raw
        THEN Join(album_destino, Name(archivo))
        ELSE IF es_raw
        THEN Join(Join(raw_dir, DecStr(fecha.year)), Name(archivo))
        ELSE Join(Join(Join(root, DecStr(fecha.year)), TwoDigits(fecha.month)), Name(archivo))

\* planificar_movimientos as the consolidator calls it, with
\* gestor_archivos.get_creation_time as get_timestamp_func
DestinoFinal(archivo, dict, root) ==
    DestinoConFecha(archivo, dict, root, get_creation_time(archivo))

\* which counter of OrganizadorFotos.stats the file adds to
PlanificadoComo(archivo, dict) ==
    IF find_matching_album(archivo, dict) # NoAlbum /\ Lower(Suffix(archivo)) \notin raw_extensions
    THEN "asignados_a_album"
    ELSE IF Lower(Suffix(archivo)) \in raw_extensions THEN "raw_procesados"
    ELSE "organizados_por_fecha"

\* the loop of planificar_movimientos
planificar_movimientos(archivos, dict, existing, root) ==
    [i \in 1..Len(archivos) |->
        [file |-> archivos[i],
         final_destination |->
             resolve_name_collision(DestinoFinal(archivos[i], dict, root), existing),
         timestamp |-> get_creation_time(archivos[i])]]

SinEstadisticasOrganizador ==
    [asignados_a_album |-> 0, organizados_por_fecha |-> 0, raw_procesados |-> 0]

\* the first loop of eliminar_duplicados
ArchivosData(archivos) ==
    LET ok == SelectSeq(archivos, LAMBDA file : OnDisk(file).readable)
    IN  [i \in 1..Len(ok) |-> FileData(ok[i])]

SinEstadisticasDetector ==
    [duplicados_exactos |-> 0, duplicados_contenido |-> 0, duplicados_visuales |-> 0,
     duplicados_rafaga |-> 0, duplicados_opencv |-> 0]

\* the four passes of eliminar_duplicados on the records fd: the passes of
\* DetectorDuplicadosAvanzado are the passes of AdvancedDuplicateDetector under
\* Spanish names; the call raises where agrupar_por_tiempo indexes an empty list
DetectarDuplicados(fd, skip) ==
    [raises |-> ~skip /\ GroupByTimeRaises(fd),
     exactos |-> detect_exact_duplicates(fd),
     contenido |-> detect_content_duplicates(fd),
     visuales |-> IF skip THEN EmptyGraph ELSE detect_visual_duplicates(fd),
     rafaga |-> IF skip \/ GroupByTimeRaises(fd) THEN EmptyGraph
                ELSE detect_burst_duplicates(fd)]

\* todos_duplicados after the four update calls
TodosDuplicados(g) ==
    Update(Update(Update(Update(EmptyGraph, g.exactos), g.contenido), g.visuales), g.rafaga)

\* archivos_unicos
ArchivosUnicos(archivos, todos) ==
    SelectSeq(archivos, LAMBDA file : file \notin FilesToRemove(todos))

\* how the handling of one move can end: everything done, or the step that raised
Outcomes == {"ok", "mkdir", "copy2", "utime", "unlink"}

\* the loop of ejecutar_movimientos from move i on; st holds the files under
\* the destination, the files under the source, the destination's top-level
\* directories and archivos_movidos
RECURSIVE MoveLoop(_, _, _, _, _, _)
MoveLoop(movs, outcome, i, st, root, dest) ==
    IF i > Len(movs) THEN st
    ELSE LET m == movs[i]
             o == IF outcome[i] \in {"ok", "utime", "unlink"} /\ m.file \notin st.source
                  THEN "copy2" ELSE outcome[i]
             top == m.final_destination[Len(dest) + 1]
             made == IF o # "mkdir" /\ Len(m.final_destination) > Len(dest) + 1
                        /\ top \notin Range(st.dirs)
                     THEN Append(st.dirs, top) ELSE st.dirs
             copied == IF o \in {"ok", "utime", "unlink"}
                       THEN st.disk \cup {m.final_destination} ELSE st.disk
             left == IF o = "ok" /\ IsUnder(root, m.file)
                     THEN st.source \ {m.file} ELSE st.source
         IN  MoveLoop(movs, outcome, i + 1,
                      [disk |-> copied, source |-> left, dirs |-> made,
                       count |-> st.count + (IF o = "ok" THEN 1 ELSE 0)],
                      root, dest)

ejecutar_movimientos(movs, outcome, root, dest) ==
    MoveLoop(movs, outcome, 1,
             [disk |-> disk, source |-> source_files, dirs |-> dest_dirs, count |-> 0],
             root, dest)

\* the files a source directory may hold
RunPool == {InPath(<<"a",".","d","n","g">>), InPath(<<"b",".","j","p","g">>),
            InPath(<<"s","1",".","j","p","g">>), InPath(<<"s","2",".","j","p","g">>),
            InPath(<<"g",".","j","p","g">>)}

\* what an existing destination may hold: its top-level directories and files
RunLayouts == {
    [dirs |-> <<>>, disk |-> {}],
    [dirs |-> <<<<"w","e","d","d","i","n","g","_","p","h","o","t","o","s">>>>, disk |-> {}],
    [dirs |-> <<<<"r","a","w">>, <<"s","u","m","m","e","r","-","f","u","n">>>>, disk |-> {}],
    [dirs |-> <<<<"1","9","7","0">>>>,
     disk |-> {<<<<"d","e","s","t">>, <<"1","9","7","0">>, <<"0","1">>, <<"b",".","j","p","g">>>>}]
}

InitRun ==
    /\ pc = "validar"
    /\ origen = InRoot
    /\ destino \in {destination, InRoot}
    /\ directories \in SUBSET {InRoot, destination}
    /\ source_files \in {S \in SUBSET RunPool :
                            /\ Cardinality(S) <= MaxRun
                            /\ S # {} => InRoot \in directories}
    /\ \E layout \in RunLayouts :
          /\ layout.dirs # <<>> => (destino = destination /\ destination \in directories)
          /\ dest_dirs = layout.dirs /\ disk = layout.disk
    /\ dry_run \in BOOLEAN /\ respuesta \in BOOLEAN /\ skip_visual \in BOOLEAN
    /\ run_stats = NoRunStats /\ log = <<>> /\ informe = FALSE
    /\ files = <<>> /\ files_data = <<>>
    /\ exact_duplicates = EmptyGraph /\ content_duplicates = EmptyGraph
    /\ visual_duplicates = EmptyGraph /\ burst_duplicates = EmptyGraph
    /\ all_duplicates = EmptyGraph /\ unique_files = <<>>
    /\ stats = SinEstadisticasDetector
    /\ albums = <<>> /\ plan_files = <<>> /\ moves = <<>>
    /\ plan_stats = SinEstadisticasOrganizador /\ config = Missing
    /\ SimIdle /\ GroupIdle /\ BestIdle /\ CollisionIdle /\ ExecIdle

\* mutant of ValidarConfiguracion: the source is not compared with the destination
ValidarConfiguracionSinIgualdad ==
    /\ pc = "validar"
    /\ log' = Append(log, "validar_configuracion")
    /\ IF origen \notin directories
       THEN pc' = "except" /\ UNCHANGED directories
       ELSE /\ directories' = directories \cup {destino, temp_dir}
            /\ pc' = "detectar"
    /\ UNCHANGED <<classifyVars, planVars, origen, destino, source_files, dry_run,
                   respuesta, run_stats, informe>>

\* 1. validar_configuracion: raises on a missing source and on source = destination,
\* creates the destination and the temporary directory otherwise (the test of
\* validar_dependencias, `import PIL`, cannot fail in a process that has
\* imported the detector)
ValidarConfiguracion ==
    /\ pc = "validar"
    /\ log' = Append(log, "validar_configuracion")
    /\ IF origen \notin directories
       THEN pc' = "except" /\ UNCHANGED directories
       ELSE IF origen = destino
       THEN pc' = "except" /\ UNCHANGED directories
       ELSE /\ directories' = directories \cup {destino, temp_dir}
            /\ pc' = "detectar"
    /\ UNCHANGED <<classifyVars, planVars, origen, destino, source_files, dry_run,
                   respuesta, run_stats, informe>>

\* 2. detectar_albumes_existentes
DetectarAlbumes ==
    /\ pc = "detectar"
    /\ log' = Append(log, "detectar_albumes_existentes")
    /\ albums' = IF destino \in directories
                 THEN detectar_albumes_existentes(destino, dest_dirs) ELSE <<>>
    /\ pc' = "recopilar"
    /\ UNCHANGED <<classifyVars, dest_dirs, plan_files, disk, moves, plan_stats, config,
                   origen, destino, directories, source_files, dry_run, respuesta,
                   run_stats, informe>>

\* 3. recopilar_archivos, in the order rglob yields the files; the run ends
\* here when it finds none
RecopilarArchivos ==
    /\ pc = "recopilar"
    /\ log' = Append(log, "recopilar_archivos")
    /\ \E archivos \in DistinctSeqs(source_files, Cardinality(source_files)) :
          /\ Len(archivos) = Cardinality(source_files)
          /\ files' = archivos
    /\ run_stats' = [run_stats EXCEPT !.archivos_procesados = Len(files')]
    /\ pc' = IF files' = <<>> THEN "finally_return" ELSE "eliminar"
    /\ UNCHANGED <<skip_visual, files_data, exact_duplicates, content_duplicates,
                   visual_duplicates, burst_duplicates, all_duplicates, unique_files,
                   stats, planVars, origen, destino, directories, source_files,
                   dry_run, respuesta, informe>>

\* 4. and 5. detector.configurar with the default thresholds, eliminar_duplicados
EliminarDuplicados ==
    /\ pc = "eliminar"
    /\ log' = Append(log, "eliminar_duplicados")
    /\ \E fd \in {ArchivosData(files)} :
       \E g \in {DetectarDuplicados(fd, skip_visual)} :
       \E todos \in {TodosDuplicados(g)} :
       \E unicos \in {ArchivosUnicos(files, todos)} :
           /\ files_data' = fd
           /\ exact_duplicates' = g.exactos /\ content_duplicates' = g.contenido
           /\ visual_duplicates' = g.visuales /\ burst_duplicates' = g.rafaga
           /\ all_duplicates' = todos
           /\ stats' = [stats EXCEPT
                          !.duplicados_exactos = @ + EdgeCount(g.exactos),
                          !.duplicados_contenido = @ + EdgeCount(g.contenido),
                          !.duplicados_visuales = @ + EdgeCount(g.visuales),
                          !.duplicados_rafaga = @ + EdgeCount(g.rafaga)]
           /\ IF g.raises
              THEN /\ pc' = "except"
                   /\ UNCHANGED <<unique_files, run_stats>>
              ELSE /\ unique_files' = unicos
                   /\ run_stats' = [run_stats EXCEPT !.duplicados_eliminados =
                                       Len(files) - Len(unicos)]
                   /\ pc' = "planificar"
    /\ UNCHANGED <<files, skip_visual, planVars, origen, destino, directories,
                   source_files, dry_run, respuesta, informe>>

\* mutant of PlanificarMovimientos: the planner is handed the collected list
PlanificarMovimientosTodos ==
    /\ pc = "planificar"
    /\ log' = Append(log, "planificar_movimientos")
    /\ IF \E i \in 1..Len(unique_files) : CreationTimeRaises(unique_files[i])
       THEN /\ pc' = "except"
            /\ LET first == CHOOSE i \in 1..Len(unique_files) :
                               /\ CreationTimeRaises(unique_files[i])
                               /\ \A j \in 1..(i - 1) : ~CreationTimeRaises(unique_files[j])
                   done == SubSeq(unique_files, 1, first - 1)
               IN  plan_stats' =
                      [counter \in DOMAIN plan_stats |->
                          plan_stats[counter]
                          + Cardinality({i \in 1..Len(done) :
                                            PlanificadoComo(done[i], albums) = counter})]
            /\ UNCHANGED moves
       ELSE /\ moves' = planificar_movimientos(files, albums, disk, destino)
            /\ plan_stats' =
                  [counter \in DOMAIN plan_stats |->
                      plan_stats[counter]
                      + Cardinality({i \in 1..Len(unique_files) :
                                        PlanificadoComo(unique_files[i], albums) = counter})]
            /\ pc' = "informe"
    /\ UNCHANGED <<classifyVars, dest_dirs, albums, plan_files, disk, config,
                   origen, destino, directories, source_files, dry_run, respuesta,
                   run_stats, informe>>

\* 6. planificar_movimientos; get_creation_time raises on a file that is gone
PlanificarMovimientos ==
    /\ pc = "planificar"
    /\ log' = Append(log, "planificar_movimientos")
    /\ IF \E i \in 1..Len(unique_files) : CreationTimeRaises(unique_files[i])
       THEN /\ pc' = "except"
            /\ LET first == CHOOSE i \in 1..Len(unique_files) :
                               /\ CreationTimeRaises(unique_files[i])
                               /\ \A j \in 1..(i - 1) : ~CreationTimeRaises(unique_files[j])
                   done == SubSeq(unique_files, 1, first - 1)
               IN  plan_stats' =
                      [counter \in DOMAIN plan_stats |->
                          plan_stats[counter]
                          + Cardinality({i \in 1..Len(done) :
                                            PlanificadoComo(done[i], albums) = counter})]
            /\ UNCHANGED moves
       ELSE /\ moves' = planificar_movimientos(unique_files, albums, disk, destino)
            /\ plan_stats' =
                  [counter \in DOMAIN plan_stats |->
                      plan_stats[counter]
                      + Cardinality({i \in 1..Len(unique_files) :
                                        PlanificadoComo(unique_files[i], albums) = counter})]
            /\ pc' = "informe"
    /\ UNCHANGED <<classifyVars, dest_dirs, albums, plan_files, disk, config,
                   origen, destino, directories, source_files, dry_run, respuesta,
                   run_stats, informe>>

\* mutant of GenerarInforme: dry_run is not looked at
GenerarInformeSinSimulacion ==
    /\ pc = "informe"
    /\ log' = Append(log, "generar_informe")
    /\ informe' = TRUE
    /\ pc' = "confirmar"
    /\ UNCHANGED <<classifyVars, planVars, origen, destino, directories, source_files,
                   dry_run, respuesta, run_stats>>

\* 7. generar_informe, and the branch on dry_run that follows it
GenerarInforme ==
    /\ pc = "informe"
    /\ log' = Append(log, "generar_informe")
    /\ informe' = TRUE
    /\ pc' = IF dry_run THEN "finally_return" ELSE "confirmar"
    /\ UNCHANGED <<classifyVars, planVars, origen, destino, directories, source_files,
                   dry_run, respuesta, run_stats>>

\* 8. confirmar_ejecucion: the answer read from the terminal
ConfirmarEjecucion ==
    /\ pc = "confirmar"
    /\ log' = Append(log, "confirmar_ejecucion")
    /\ pc' = IF respuesta THEN "ejecutar" ELSE "finally_return"
    /\ UNCHANGED <<classifyVars, planVars, origen, destino, directories, source_files,
                   dry_run, respuesta, run_stats, informe>>

\* 8. ejecutar_movimientos: every move is handled once, whatever the others did
EjecutarMovimientos ==
    /\ pc = "ejecutar"
    /\ log' = Append(log, "ejecutar_movimientos")
    /\ \E outcome \in [1..Len(moves) -> Outcomes] :
          \E st \in {ejecutar_movimientos(moves, outcome, origen, destino)} :
              /\ disk' = st.disk
              /\ source_files' = st.source
              /\ dest_dirs' = st.dirs
              /\ run_stats' = [run_stats EXCEPT !.archivos_movidos = st.count]
    /\ pc' = "finally_return"
    /\ UNCHANGED <<classifyVars, albums, plan_files, moves, plan_stats, config,
                   origen, destino, directories, dry_run, respuesta, informe>>

\* except Exception: the error is counted and raised again
ManejarError ==
    /\ pc = "except"
    /\ run_stats' = [run_stats EXCEPT !.errores = @ + 1]
    /\ pc' = "finally_raise"
    /\ UNCHANGED <<classifyVars, planVars, origen, destino, directories, source_files,
                   dry_run, respuesta, log, informe>>

\* finally: mostrar_resumen_final, then the call returns or raises
MostrarResumenFinal ==
    /\ pc \in {"finally_return", "finally_raise"}
    /\ log' = Append(log, "mostrar_resumen_final")
    /\ pc' = IF pc = "finally_raise" THEN "raised" ELSE "returned"
    /\ UNCHANGED <<classifyVars, planVars, origen, destino, directories, source_files,
                   dry_run, respuesta, run_stats, informe>>

NextRun ==
    \/ (ValidarConfiguracion /\ UNCHANGED <<simVars, groupVars, bestVars, collisionVars, execVars>>)
    \/ (DetectarAlbumes /\ UNCHANGED <<simVars, groupVars, bestVars, collisionVars, execVars>>)
    \/ (RecopilarArchivos /\ UNCHANGED <<simVars, groupVars, bestVars, collisionVars, execVars>>)
    \/ (EliminarDuplicados /\ UNCHANGED <<simVars, groupVars, bestVars, collisionVars, execVars>>)
    \/ (PlanificarMovimientos /\ UNCHANGED <<simVars, groupVars, bestVars, collisionVars, execVars>>)
    \/ (GenerarInforme /\ UNCHANGED <<simVars, groupVars, bestVars, collisionVars, execVars>>)
    \/ (ConfirmarEjecucion /\ UNCHANGED <<simVars, groupVars, bestVars, collisionVars, execVars>>)
    \/ (EjecutarMovimientos /\ UNCHANGED <<simVars, groupVars, bestVars, collisionVars, execVars>>)
    \/ (ManejarError /\ UNCHANGED <<simVars, groupVars, bestVars, collisionVars, execVars>>)
    \/ (MostrarResumenFinal /\ UNCHANGED <<simVars, groupVars, bestVars, collisionVars, execVars>>)

SpecRun == InitRun /\ [][NextRun]_vars

(***************************************************************************)
(* Properties of ejecutar_consolidacion (SpecRun).                         *)
(***************************************************************************)
\* the two configurations validar_configuracion rejects
ConfigError == origen \notin directories \/ origen = destino

\* no stage after the validation has left a trace
NothingRan ==
    /\ albums = <<>>
    /\ files = <<>> /\ files_data = <<>> /\ all_duplicates = EmptyGraph
    /\ unique_files = <<>> /\ stats = SinEstadisticasDetector
    /\ moves = <<>> /\ plan_stats = SinEstadisticasOrganizador
    /\ ~informe
    /\ run_stats.archivos_procesados = 0 /\ run_stats.duplicados_eliminados = 0
    /\ run_stats.archivos_movidos = 0
    /\ \A i \in 1..Len(log) : log[i] \in {"validar_configuracion", "mostrar_resumen_final"}

\* C20: when the source directory does not exist or the source equals the
\* destination, the validation raises and ejecutar_consolidacion ends by
\* raising, with the error counted once; no album detection, collection,
\* classification, planning, report or move execution happens in that run, and
\* no file or directory is created or removed.
C20_ConfigErrorAborts ==
    /\ [](ConfigError => (NothingRan /\ pc \in {"validar", "except", "finally_raise", "raised"}))
    /\ [][(ConfigError /\ pc = "validar") => pc' = "except"]_vars
    /\ []((ConfigError /\ pc = "raised") => run_stats.errores = 1)
    /\ [][ConfigError => UNCHANGED <<disk, source_files, directories, dest_dirs>>]_vars

\* a run whose source holds files and is also its destination has raised
C20_Witness ==
    /\ pc = "raised"
    /\ origen = destino /\ origen \in directories
    /\ source_files # {}
    /\ run_stats.errores = 1
    /\ log = <<"validar_configuracion", "mostrar_resumen_final">>

\* the calls of a complete run, in the order of the code
StageOrder == <<"validar_configuracion", "detectar_albumes_existentes", "recopilar_archivos",
                "eliminar_duplicados", "planificar_movimientos", "generar_informe",
                "confirmar_ejecucion", "ejecutar_movimientos">>

\* the calls made so far, the summary of the finally clause left out
StagesRun ==
    IF log # <<>> /\ log[Len(log)] = "mostrar_resumen_final"
    THEN SubSeq(log, 1, Len(log) - 1) ELSE log

\* the position a stage has in the log, 0 when it has not run
StageIndex(stage) ==
    IF stage \in Range(log) THEN CHOOSE i \in 1..Len(log) : log[i] = stage ELSE 0

\* C21: the stages run one at a time in the order validate, detect albums,
\* collect, classify, plan, report, (confirm,) execute: the calls made so far are
\* always an initial part of that list, each call ended before the next began;
\* ejecutar_movimientos is called only after planning and the report, in a run
\* that is not a dry run and whose user confirmed; in a dry run, or when the user
\* declines, no step copies a file to the destination or removes a source file.
C21_StagesInOrder ==
    /\ [](\E n \in 0..Len(StageOrder) : StagesRun = SubSeq(StageOrder, 1, n))
    /\ [][log' # log => (Len(log') = Len(log) + 1 /\ SubSeq(log', 1, Len(log)) = log)]_vars
    /\ []("ejecutar_movimientos" \in Range(log) =>
            /\ ~dry_run /\ respuesta /\ informe
            /\ 0 < StageIndex("planificar_movimientos")
            /\ StageIndex("planificar_movimientos") < StageIndex("generar_informe")
            /\ StageIndex("generar_informe") < StageIndex("ejecutar_movimientos"))
    /\ []((dry_run \/ ~respuesta) =>
            ("ejecutar_movimientos" \notin Range(log) /\ run_stats.archivos_movidos = 0))
    /\ [][(dry_run \/ ~respuesta) => UNCHANGED <<source_files, disk, dest_dirs>>]_vars
    /\ [][(source_files' # source_files \/ disk' # disk) => pc = "ejecutar"]_vars

\* a dry run whose user would have confirmed ended with moves planned, the
\* report written and every collected file still under the source
C21_Witness ==
    /\ pc = "returned"
    /\ dry_run /\ respuesta
    /\ moves # <<>> /\ informe
    /\ Range(files) = source_files
    /\ StagesRun = SubSeq(StageOrder, 1, 6)

(***************************************************************************)
(* GestorArchivos.ejecutar_movimientos on its own, one action per          *)
(* statement of the loop body; every call into the file system can raise.  *)
(***************************************************************************)
\* longest list of moves handed to ejecutar_movimientos
MaxMoves == 2

\* st_mtime of the source files, which copy2 carries over to the copy
SourceMtime == 1000

Move(file, final_destination, timestamp) ==
    [file |-> file, final_destination |-> final_destination, timestamp |-> timestamp]

\* the moves a list may hold: two files of one name planned to one destination,
\* a file of its own, a file outside the source and a file that is gone
ExecPool == {
    Move(<<<<"i","n">>, <<"x">>, <<"a",".","j","p","g">>>>,
         <<<<"d","e","s","t">>, <<"1","9","7","0">>, <<"0","1">>, <<"a",".","j","p","g">>>>, 0),
    Move(<<<<"i","n">>, <<"y">>, <<"a",".","j","p","g">>>>,
         <<<<"d","e","s","t">>, <<"1","9","7","0">>, <<"0","1">>, <<"a",".","j","p","g">>>>, 0),
    Move(<<<<"i","n">>, <<"b",".","j","p","g">>>>,
         <<<<"d","e","s","t">>, <<"a","l","b">>, <<"b",".","j","p","g">>>>, 5),
    Move(<<<<"o","t","h","e","r">>, <<"c",".","j","p","g">>>>,
         <<<<"d","e","s","t">>, <<"a","l","b">>, <<"c",".","j","p","g">>>>, 7),
    Move(<<<<"i","n">>, <<"g","o","n","e",".","j","p","g">>>>,
         <<<<"d","e","s","t">>, <<"a","l","b">>, <<"g","o","n","e",".","j","p","g">>>>, 1)
}

\* the source files that exist when the call starts
ExecSources == {m.file : m \in ExecPool} \ {<<<<"i","n">>, <<"g","o","n","e",".","j","p","g">>>>}

\* what a copy that broke off has left of the source's bytes
PartialCopy == <<<<"partial">>>>

\* the file a write to `path` leaves there
Written(path, content, mtime) == [path |-> path, content |-> content, mtime |-> mtime]
Overwrite(written, file) == {c \in written : c.path # file.path} \cup {file}

InitExec ==
    /\ pc = "for"
    /\ moves \in DistinctSeqs(ExecPool, MaxMoves)
    /\ move_index = 1 /\ archivos_movidos = 0
    /\ attempts = [i \in 1..Len(moves) |-> 0]
    /\ move_outcome = [i \in 1..Len(moves) |-> "pending"]
    /\ copies = {} /\ disk = {}
    /\ source_files = ExecSources
    /\ origen = InRoot /\ destino = destination
    /\ directories = {InRoot, destination, temp_dir}
    /\ dry_run = FALSE /\ respuesta = TRUE
    /\ run_stats = NoRunStats /\ log = <<>> /\ informe = FALSE
    /\ dest_dirs = <<>> /\ albums = <<>> /\ plan_files = <<>>
    /\ plan_stats = NoPlanStats /\ config = Missing
    /\ ClassifyIdle /\ SimIdle /\ GroupIdle /\ BestIdle /\ CollisionIdle

\* what every step of the loop leaves alone
ExecFrame ==
    UNCHANGED <<classifyVars, simVars, groupVars, bestVars, collisionVars,
                dest_dirs, albums, plan_files, moves, plan_stats, config,
                origen, destino, directories, dry_run, respuesta, run_stats, log, informe>>

\* except Exception: the error is logged and the loop goes on with the next move
Failed(step) ==
    /\ move_outcome' = [move_outcome EXCEPT ![move_index] = step]
    /\ move_index' = move_index + 1
    /\ pc' = "for"

\* for archivo_origen, archivo_destino, timestamp in movimientos
ForMove ==
    /\ pc = "for" /\ move_index <= Len(moves)
    /\ attempts' = [attempts EXCEPT ![move_index] = @ + 1]
    /\ pc' = "mkdir"
    /\ UNCHANGED <<move_index, archivos_movidos, move_outcome, copies, disk, source_files>>
    /\ ExecFrame

\* return archivos_movidos
ReturnCount ==
    /\ pc = "for" /\ move_index > Len(moves)
    /\ pc' = "returned"
    /\ UNCHANGED <<move_index, archivos_movidos, attempts, move_outcome, copies, disk, source_files>>
    /\ ExecFrame

\* mutant of MkdirParent: a failure ends the loop
MkdirParentAborts ==
    /\ pc = "mkdir"
    /\ \/ /\ pc' = "copy2"
          /\ UNCHANGED <<move_index, move_outcome>>
       \/ /\ move_outcome' = [move_outcome EXCEPT ![move_index] = "mkdir"]
          /\ move_index' = Len(moves) + 1
          /\ pc' = "for"
    /\ UNCHANGED <<archivos_movidos, attempts, copies, disk, source_files>>
    /\ ExecFrame

\* archivo_destino.parent.mkdir(parents=True, exist_ok=True)
MkdirParent ==
    /\ pc = "mkdir"
    /\ \/ /\ pc' = "copy2"
          /\ UNCHANGED <<move_index, move_outcome>>
       \/ Failed("mkdir")
    /\ UNCHANGED <<archivos_movidos, attempts, copies, disk, source_files>>
    /\ ExecFrame

\* shutil.copy2: it replaces what the destination held; when it raises it has
\* written nothing or a part of the file
Copy2 ==
    /\ pc = "copy2"
    /\ LET m == moves[move_index]
       IN  \/ /\ m.file \in source_files
              /\ copies' = Overwrite(copies, Written(m.final_destination, m.file, SourceMtime))
              /\ disk' = disk \cup {m.final_destination}
              /\ pc' = "utime"
              /\ UNCHANGED <<move_index, move_outcome>>
           \/ /\ UNCHANGED <<copies, disk>>
              /\ Failed("copy2")
           \/ /\ m.file \in source_files
              /\ copies' = Overwrite(copies, Written(m.final_destination, PartialCopy, SourceMtime))
              /\ disk' = disk \cup {m.final_destination}
              /\ Failed("copy2")
    /\ UNCHANGED <<archivos_movidos, attempts, source_files>>
    /\ ExecFrame

\* os.utime(archivo_destino, (timestamp, timestamp))
Utime ==
    /\ pc = "utime"
    /\ LET m == moves[move_index]
       IN  \/ /\ copies' = {IF c.path = m.final_destination
                            THEN Written(c.path, c.content, m.timestamp) ELSE c : c \in copies}
              /\ pc' = "unlink"
              /\ UNCHANGED <<move_index, move_outcome>>
           \/ /\ UNCHANGED copies
              /\ Failed("utime")
    /\ UNCHANGED <<archivos_movidos, attempts, disk, source_files>>
    /\ ExecFrame

\* the unlink of a source under origen, and archivos_movidos += 1
UnlinkAndCount ==
    /\ pc = "unlink"
    /\ LET m == moves[move_index]
           done == /\ archivos_movidos' = archivos_movidos + 1
                   /\ move_outcome' = [move_outcome EXCEPT ![move_index] = "ok"]
                   /\ move_index' = move_index + 1
                   /\ pc' = "for"
       IN  IF IsUnder(origen, m.file)
           THEN \/ /\ source_files' = source_files \ {m.file}
                   /\ done
                \/ /\ UNCHANGED <<source_files, archivos_movidos>>
                   /\ Failed("unlink")
           ELSE /\ UNCHANGED source_files
                /\ done
    /\ UNCHANGED <<attempts, copies, disk>>
    /\ ExecFrame

NextExec ==
    \/ ForMove
    \/ ReturnCount
    \/ MkdirParent
    \/ Copy2
    \/ Utime
    \/ UnlinkAndCount

\* the loop is sequential: a statement that can run runs
SpecExec == InitExec /\ [][NextExec]_vars /\ WF_vars(NextExec)

(***************************************************************************)
(* Properties of ejecutar_movimientos (SpecExec).                          *)
(***************************************************************************)
\* the steps of the loop body that can raise
FailureSteps == {"mkdir", "copy2", "utime", "unlink"}

\* the destination of move i holds the bytes of its source, stamped with its timestamp
CopyInPlace(i) ==
    Written(moves[i].final_destination, moves[i].file, moves[i].timestamp) \in copies

\* C22: a failure while one move is handled ends the handling of that move only:
\* the loop goes on with the next move, no move is started twice, the call
\* returns once every move of the list was started exactly once, and the count
\* it returns is the number of moves handled without error; the count goes up
\* only by the step that leaves the copy in place, stamped, and the source
\* (when it lies under the source root) removed.
C22_FailureSkipsOneMove ==
    /\ <>(pc = "returned")
    /\ [](\A i \in 1..Len(moves) : attempts[i] <= 1)
    /\ [](pc = "returned" =>
            /\ \A i \in 1..Len(moves) : attempts[i] = 1 /\ move_outcome[i] # "pending"
            /\ archivos_movidos = Cardinality({i \in 1..Len(moves) : move_outcome[i] = "ok"}))
    /\ [][(move_outcome' # move_outcome /\ move_outcome'[move_index] \in FailureSteps)
             => /\ move_index' = move_index + 1 /\ pc' = "for"
                /\ archivos_movidos' = archivos_movidos
                /\ attempts' = attempts]_vars
    /\ [][archivos_movidos' # archivos_movidos
             => /\ archivos_movidos' = archivos_movidos + 1
                /\ move_outcome'[move_index] = "ok"
                /\ CopyInPlace(move_index)
                /\ IsUnder(origen, moves[move_index].file)
                      => moves[move_index].file \notin source_files']_vars

\* the first of two moves failed, the second was handled and counted
C22_Witness ==
    /\ pc = "returned"
    /\ Len(moves) = 2
    /\ move_outcome[1] \in FailureSteps /\ move_outcome[2] = "ok"
    /\ attempts = <<1, 1>>
    /\ archivos_movidos = 1

\* C23: a source file that has been removed lies under the source root and its
\* copy, stamped with the move's timestamp, is present at the destination the
\* move planned for it; a move whose copy failed leaves its source in place.
C23_RemovedSourceHasCopy ==
    \A i \in 1..Len(moves) :
        LET f == moves[i].file
        IN  /\ (f \in ExecSources /\ f \notin source_files)
                  => (IsUnder(origen, f) /\ CopyInPlace(i))
            /\ (f \in ExecSources /\ move_outcome[i] \in {"mkdir", "copy2"})
                  => f \in source_files

(***************************************************************************)
(* The two copies of the planner (SpecPlan).                               *)
(***************************************************************************)
\* what OrganizadorFotos builds and plans on the tree and the file list
\* PhotoOrganizer was given, with the same capture-time function
IndiceOrganizador == detectar_albumes_existentes(destination, dest_dirs)
DestinosOrganizador ==
    [i \in 1..Len(plan_files) |->
        resolve_name_collision(
            DestinoConFecha(plan_files[i], IndiceOrganizador, destination,
                            get_timestamp_func(plan_files[i])),
            disk)]

\* C24: with the default configuration PhotoOrganizer and OrganizadorFotos
\* build the same album index and plan the same destination for every file
C24_PlannersAgree ==
    (pc = "planned" /\ config = Missing) =>
        /\ albums = IndiceOrganizador
        /\ \A i \in 1..Len(moves) : moves[i].final_destination = DestinosOrganizador[i]

(***************************************************************************)
(* The merge of the partial graphs (Spec).                                 *)
(***************************************************************************)
\* the passes in the order remove_duplicates calls them, and their graphs
PassOrder == <<"exact", "content", "visual", "burst">>
PassGraph(n) ==
    IF n = 1 THEN exact_duplicates
    ELSE IF n = 2 THEN content_duplicates
    ELSE IF n = 3 THEN visual_duplicates
    ELSE burst_duplicates

\* how many passes have been merged into all_duplicates
PassesMerged ==
    IF pc \in {"prepare", "exact"} THEN 0
    ELSE IF pc = "content" THEN 1
    ELSE IF pc = "visual" THEN 2
    ELSE IF pc \in {"burst", "raised"} THEN 3
    ELSE IF skip_visual THEN 2 ELSE 4

\* the merged passes that recorded an entry under the key
PassesWithKey(k) == {n \in 1..PassesMerged : k \in DOMAIN PassGraph(n)}
LastPassWithKey(k) ==
    CHOOSE n \in PassesWithKey(k) : \A m \in PassesWithKey(k) : m <= n

\* C25: the graphs are merged in the order exact, content, visual, burst; the
\* entry of a key in the merged graph is, as a whole, the entry of the last
\* pass in that order that recorded the key.
C25_LaterPassReplacesEntry ==
    /\ [](DOMAIN all_duplicates = UNION {DOMAIN PassGraph(n) : n \in 1..PassesMerged})
    /\ [](\A k \in DOMAIN all_duplicates :
             all_duplicates[k] = PassGraph(LastPassWithKey(k))[k])
    /\ [][\/ pc = "exact" /\ pc' = "content"
          \/ pc = "content" /\ pc' = IF skip_visual THEN "process" ELSE "visual"
          \/ pc = "visual" /\ pc' = "burst"
          \/ pc = "burst" /\ pc' \in {"process", "raised"}
          \/ pc \in {"prepare", "process"}]_vars

\* a key recorded by the exact pass and by a later pass with another entry
C25_Witness ==
    /\ pc = "done"
    /\ \E k \in DOMAIN exact_duplicates :
          \E n \in 2..PassesMerged :
              /\ k \in DOMAIN PassGraph(n)
              /\ LastPassWithKey(k) = n
              /\ PassGraph(n)[k] # exact_duplicates[k]
              /\ all_duplicates[k] = PassGraph(n)[k]
    /\ \E k \in DOMAIN visual_duplicates :
          /\ k \in DOMAIN burst_duplicates
          /\ burst_duplicates[k] # visual_duplicates[k]

(***************************************************************************)
(* What remove_duplicates keeps (Spec).                                    *)
(***************************************************************************)
\* C26: for every non-empty input the returned list is non-empty, and of every
\* group of records sharing a non-empty binary_hash at least one member is
\* returned, whatever the order of the input.
C26_SomeCopySurvives ==
    pc = "done" =>
        /\ files # <<>> => unique_files # <<>>
        /\ \A g \in SharedHashGroups("binary_hash") :
               \E data \in g : data.path \in Unique

\* the edges of the visual pass that are in the merged graph
VisualDiscards ==
    {ke.edge.match_path : ke \in {x \in KeyedEdges(all_duplicates) : x.edge.tipo = "visual"}}

\* the returned files that resemble the record beyond visual_threshold
Representatives(file_str) ==
    {u \in Unique :
        RLess(visual_threshold,
              calculate_perceptual_similarity(DataOf(PathStr(u)).perceptual_hashes,
                                              DataOf(file_str).perceptual_hashes))}

\* C27: every record removed through a visual edge resembles, beyond
\* visual_threshold, some record of the returned list.
C27_VisualDiscardHasRepresentative ==
    pc = "done" => \A file_str \in VisualDiscards : Representatives(file_str) # {}

\* no record could be built: the list is empty or every construction failed
NoRecord == files_data = <<>>

\* C28: when no record is available remove_duplicates does not raise, in the
\* burst pass or elsewhere, and returns the input list unchanged.
C28_NoRecordReturnsInput ==
    /\ (pc \in {"burst", "process", "done", "raised"} /\ NoRecord) => pc # "raised"
    /\ (pc = "done" /\ NoRecord) => unique_files = files

(***************************************************************************)
(* A later run on the destination of an earlier one (SpecPlan).            *)
(***************************************************************************)
\* the files under the destination that an earlier run with the default
\* hierarchy filed by date: <dest>/<year>/<month>/<day>/<name>
FiledByDate ==
    {f \in disk :
        \E file \in PlanPaths :
            Parent(f) = destination
                        \o PathOf(Strftime(DefaultHierarchy,
                                           CivilDate(get_timestamp_func(file))))}
YearDirs == {f[2] : f \in FiledByDate}

\* a file of the later run: its path contains the year, its time is another
LaterFile == <<<<"s","r","c">>, <<"s","c","a","n","_","1","9","7","0">>, <<"z",".","j","p","g">>>>

\* the index of the directories that are not year directories
RealAlbums == detect_existing_albums(SelectSeq(dest_dirs, LAMBDA name : name \notin YearDirs))

\* C29: the index has no key for a year directory an earlier run created, and
\* a file whose path contains the year and matches no real album gets no album.
C29_YearDirIsNoAlbum ==
    IndexBuilt =>
        /\ \A y \in YearDirs :
              \A i \in 1..Len(albums) : albums[i].path # Join(destination, y)
        /\ (YearDirs # {} /\ find_matching_album(LaterFile, RealAlbums) = NoAlbum)
              => find_matching_album(LaterFile, albums) = NoAlbum

(***************************************************************************)
(* The files eliminar_duplicados discarded (SpecRun).                      *)
(***************************************************************************)
\* the collected files that are not in archivos_unicos, once it was returned
Discarded ==
    IF pc = "planificar" \/ "planificar_movimientos" \in Range(log)
    THEN Range(files) \ Range(unique_files)
    ELSE {}

MoveSources == {moves[i].file : i \in 1..Len(moves)}
MoveDestinations == {moves[i].final_destination : i \in 1..Len(moves)}

\* C30: a discarded file is never the source of a planned move, the moves
\* write and remove nothing but their own destinations and sources, and every
\* discarded file is still at its source path, during and after the run.
C30_DiscardedLeftUntouched ==
    /\ [](MoveSources \cap Discarded = {})
    /\ [](Discarded \subseteq source_files)
    /\ [][pc = "ejecutar" =>
             /\ disk' \ disk \subseteq MoveDestinations
             /\ source_files \ source_files' \subseteq MoveSources
             /\ Discarded' = Discarded]_vars

\* a run that discarded a file and moved another one
C30_Witness ==
    /\ pc = "returned"
    /\ Discarded # {}
    /\ Discarded \subseteq source_files
    /\ run_stats.archivos_movidos > 0
    /\ \E f \in Range(unique_files) : f \notin source_files

====
